---------------------------- MODULE Spec2Model ----------------------------
(***************************************************************************)
(* Model of the monitoring agent runtime (package agent, package           *)
(* pocketbase): Agent.Start / initializeServerRecord, the Control Loop     *)
(* (collectMetrics / checkServerStatus), the Command Channel               *)
(* (listenForCommands / checkForCommands / executeCommand), the Health     *)
(* Surface control handlers, Agent.Stop, and the remote store as seen      *)
(* through PocketBaseClient.  An operator writes the remote ServerRecord   *)
(* and queues CommandRecords concurrently with the agent.                  *)
(*                                                                         *)
(* Durations are in milliseconds; the remote check_interval is in seconds. *)
(*                                                                         *)
(* A second specification, SpecCollector, drives the SystemCollector       *)
(* (CPU and network samplers, interface selection, container statistics    *)
(* and the size-string parser) on inputs drawn from bounded sets.  A third *)
(* one, SpecStore, drives the FlexibleInt decoding of the store interface  *)
(* on JSON values drawn from a bounded set.                                *)
(***************************************************************************)
EXTENDS Integers, Sequences, FiniteSets, TLC

(* ------------------------------- bounds ------------------------------- *)
\* ticks of the Control Loop's ticker in one run
MaxTicks == 2

\* polls of the Command Channel in one run
MaxPolls == 2

\* events the environment injects in one run: operator writes, queued commands,
\* control requests, the termination signal, and failed remote requests of
\* initialization, of the Control Loop and of the command poll and mark. The
\* outcome of the agent-status write that a command, a control request or the
\* signal brings about belongs to that event.
MaxEvents == 1

\* containers the container engine lists
MaxContainers == 2

\* width in bits of the unsigned counters of /proc/stat and /proc/net/dev.
\* The program's counters are uint64; the model checker's integers are 32
\* bits wide, so the counters wrap at 2^WordBits here.
WordBits == 3

\* largest value of a counter that the samplers read in a sequence of calls
MaxCounter == 2

\* calls made on one SystemCollector, and metric snapshots of the Control
\* Loop, in one run of SpecCollector
MaxCalls == 3

\* characters of a size string
MaxLen == 4

\* interfaces net.Interfaces lists
MaxIfaces == 3

\* width in bits of the signed int that FlexibleInt holds. The program's int
\* is 64 bits wide; here its range is -2^(IntBits-1) .. 2^(IntBits-1) - 1.
IntBits == 4

(* -------------------------- program constants -------------------------- *)
\* config.CheckInterval default, 30*time.Second, in milliseconds
CheckInterval == 30000

\* time.Second expressed in the model's duration unit (milliseconds)
Second == 1000

\* getCPUUsage rounds to two decimals: hundredths in one percent
Scale == 100

\* getCPUUsage: const sampleCount, and const sampleInterval in milliseconds
sampleCount == 3

sampleInterval == 100

\* getSingleCPUUsage: the sleep of a first call, and the least elapsed time
\* of a later one, in milliseconds
FirstCallSleep == 200

MinElapsed == 50

\* values an operator may store in the remote check_interval field (seconds)
IntervalChoices == {-1, 0, 60}

StatusChoices == {"up", "paused"}

CommandNames == {"start", "stop", "restart", "config_update", "reboot"}

ContainerIds == 1..MaxContainers

Callers == {"cmd", "http"}

VARIABLES
    pbEnabled,       \* config.PocketBaseEnabled, i.e. a.pocketBase # nil
    remoteControl,   \* config.RemoteControlEnabled
    servers,         \* remote collection "servers": records of this agent id, in store order
    commands,        \* remote collection "commands": records of this agent id, each
                     \* with the result of its latest dispatch by the agent
    dockers,         \* remote collection "dockers": number of records per docker_id
    isMonitoring,    \* Agent.isMonitoring
    serverRecord,    \* Agent.serverRecord: <<>> is nil, <<r>> points to r
    tickers,         \* every time.Ticker the Control Loop created: [interval, stopped]
    currentTicker,   \* Agent.currentTicker: 0 is nil, else an index of tickers
    controlMutex,    \* Agent.controlMutex: "free" or the caller holding it in write mode
    tickerMutex,     \* Agent.tickerMutex: "free", or "loop" / "stop" holding it
    cancelled,       \* a.ctx is done
    wg,              \* Agent.wg counter
    halted,          \* "no", or why the process is gone: "panic", "fatal", "exit"
    main,            \* position of Agent.Start
    loop,            \* locals and position of Agent.collectMetrics
    cmd,             \* locals and position of Agent.listenForCommands, with the
                     \* answer and the error of its latest poll
    health,          \* position of Agent.startHealthCheckServer
    http,            \* the latest control request of the Health Surface: its
                     \* method and endpoint, whether it is being served, its answer
    ctl,             \* per caller: position inside startMonitoring / stopMonitoring
    stop,            \* position of Agent.Stop
    budget,          \* counters that bound the run: ticks, polls, environment events
    writes,          \* remote writes the Control Loop issued in its current tick,
                     \* each with its outcome
    serverCreates,   \* create requests issued on the servers collection
    sc,              \* the SystemCollector a caller holds
    now,             \* time.Now(), in milliseconds since the collector run began
    probe,           \* the collector call under observation: its name, its
                     \* inputs and its result
    hist             \* history: initPaused, the initial fetch found status paused and
                     \* no tick saw another status and no start was processed since;
                     \* stopped, "yes" once a stop was processed and no start since,
                     \* "ticked" once a tick began after it; metrics, <<m>>
                     \* for the containers m gatherDockerMetrics listed in the
                     \* current tick, <<>> when it was not called

vars == <<pbEnabled, remoteControl, servers, commands, dockers,
          isMonitoring, serverRecord, tickers, currentTicker, controlMutex,
          cancelled, wg, halted, main, loop, cmd, health, http, ctl, stop,
          budget, writes, serverCreates, hist, sc, now, probe, tickerMutex>>

collectorVars == <<sc, now, probe>>

remoteVars == <<servers, commands, dockers>>
configVars == <<pbEnabled, remoteControl>>
tickerVars == <<tickers, currentTicker, tickerMutex>>
taskVars   == <<main, loop, cmd, health, http, ctl, stop>>

(* ------------------------------ helpers -------------------------------- *)
Running == halted = "no"

\* n more environment events fit in the run
CanSpend(n) == budget.events + n <= MaxEvents

Spend(n) == [budget EXCEPT !.events = @ + n]

Cost(b) == IF b THEN 1 ELSE 0

\* time.Duration.Seconds() followed by int(): whole seconds, truncated
Seconds(d) == d \div Second

\* the ServerRecord initializeServerRecord builds for the create
NewServerRecord_NoSeconds ==
    [status |-> "up", check_interval |-> CheckInterval, docker |-> FALSE,
     agent_status |-> "", reported |-> FALSE]

NewServerRecord ==
    [status |-> "up", check_interval |-> Seconds(CheckInterval), docker |-> FALSE,
     agent_status |-> "", reported |-> FALSE]

\* the remote store assigns the id of a created record
Stored(body, n) ==
    [id |-> n, status |-> body.status, check_interval |-> body.check_interval,
     docker |-> body.docker, agent_status |-> body.agent_status,
     reported |-> body.reported]

EffectiveInterval_Unchecked(rec) == rec.check_interval * Second

\* checkServerStatus: interval taken from the record when positive, else the default
EffectiveInterval(rec) ==
    IF rec.check_interval > 0 THEN rec.check_interval * Second ELSE CheckInterval

\* initializeServerRecord: if existingServer.Status == "paused"
InitiallyPaused_Never(rec) == FALSE

InitiallyPaused(rec) == rec.status = "paused"

\* checkServerStatus: isPaused := currentServer.Status == "paused"
IsPaused_Never(rec) == FALSE

IsPaused(rec) == rec.status = "paused"

\* collectMetrics: if newInterval != currentInterval
IntervalChanged_OnlyLonger(new, cur) == new > cur

IntervalChanged(new, cur) == new # cur

gatherServerMetrics_DockerAvailable(cached) ==
    [id |-> cached.id, status |-> "up", check_interval |-> cached.check_interval,
     docker |-> TRUE]

\* gatherServerMetrics: the fields of the PATCH body that this model tracks
gatherServerMetrics(cached) ==
    [id |-> cached.id, status |-> "up", check_interval |-> cached.check_interval,
     docker |-> cached.docker]

\* PocketBaseClient.UpdateServerStatus: PATCH of the marshalled ServerRecord.
\* check_interval and docker are marshalled even though tagged omitempty:
\* both are struct types, which encoding/json never treats as empty.
UpdateServerStatus(store, id, body) ==
    [i \in 1..Len(store) |->
        IF store[i].id = id
        THEN [store[i] EXCEPT !.status = body.status,
                              !.check_interval = body.check_interval,
                              !.docker = body.docker,
                              !.reported = TRUE]
        ELSE store[i]]

UpdateAgentStatus_WholeRecord(store, status) ==
    [store EXCEPT ![1].agent_status = status, ![1].status = status]

\* PocketBaseClient.UpdateAgentStatus: PATCH {"agent_status": status} on Items[0]
UpdateAgentStatus(store, status) ==
    [store EXCEPT ![1].agent_status = status]

\* the request updateServerRecord issues for the Control Loop
updateServerRecord_AsCreate(cached) == [coll |-> "servers", op |-> "create", id |-> 0]

updateServerRecord(cached) == [coll |-> "servers", op |-> "update", id |-> cached.id]

\* startMonitoring / stopMonitoring: the value stored in isMonitoring
startMonitoring_Toggle(cur) == ~cur

startMonitoring(cur) == TRUE

stopMonitoring_Keep(cur) == cur

stopMonitoring(cur) == FALSE

\* PocketBaseClient.GetPendingCommands: the records with executed = false
GetPendingCommands(store) ==
    SelectSeq([i \in 1..Len(store) |-> i], LAMBDA i : ~store[i].executed)

(* --------------------------- SystemCollector --------------------------- *)
\* 2^WordBits
Wrap == 2 ^ WordBits

\* CPUStats as calculateCPUPercentage reads it: Idle stands for the counters
\* Idle and IOWait, User for the six counters User .. Steal
CPUStats == [User : 0..(Wrap - 1), Idle : 0..(Wrap - 1)]

\* NewSystemCollector: the zero value of the struct; time 0 is the zero Time
NewSystemCollector ==
    [lastCPUStats |-> [User |-> 0, Idle |-> 0], lastCPUTime |-> 0,
     initialized |-> FALSE,
     lastNetworkStats |-> [BytesReceived |-> 0, BytesSent |-> 0],
     lastNetworkTime |-> 0]

\* no collector call is under observation
NoProbe == [fn |-> "none"]

(* -------------------------------- Init --------------------------------- *)
InitialServers ==
    {<<>>} \cup
    {<<Stored([status |-> s, check_interval |-> c, docker |-> d,
               agent_status |-> "", reported |-> FALSE], 1)>> :
        s \in StatusChoices, c \in IntervalChoices, d \in BOOLEAN}

\* validateConfiguration, lines 135-155, for a non-empty AgentID: with the
\* store enabled its URL, server name and token must be set, with the
\* store disabled the fallback ServerURL must be set
validateConfiguration(enabled, storeFieldsSet, serverURLSet) ==
    IF enabled THEN storeFieldsSet ELSE serverURLSet

\* the values of PocketBaseEnabled among the configurations validation accepts
AcceptedConfigurations ==
    {enabled \in BOOLEAN :
        \E storeFieldsSet \in BOOLEAN, serverURLSet \in BOOLEAN :
           validateConfiguration(enabled, storeFieldsSet, serverURLSet)}

Init ==
    /\ pbEnabled \in AcceptedConfigurations
    /\ remoteControl \in BOOLEAN
    /\ servers \in (IF pbEnabled THEN InitialServers ELSE {<<>>})
    /\ commands = <<>>
    /\ dockers = [c \in ContainerIds |-> 0]
    /\ isMonitoring = TRUE
    /\ serverRecord = <<>>
    /\ tickers = <<>>
    /\ currentTicker = 0
    /\ controlMutex = "free"
    /\ tickerMutex = "free"
    /\ cancelled = FALSE
    /\ wg = 0
    /\ halted = "no"
    /\ main = "init"
    /\ loop = [pc |-> "off", ticker |-> 0, first |-> 0, currentInterval |-> 0,
               newInterval |-> 0, shouldMonitor |-> FALSE, refresh |-> "none",
               body |-> <<>>]
    /\ cmd = [pc |-> "off", queue |-> <<>>, restart |-> FALSE, poll |-> "none",
              err |-> FALSE]
    /\ health = "off"
    /\ http = [pc |-> "idle", resp |-> 0, method |-> "", endpoint |-> ""]
    /\ ctl = [p \in Callers |-> [pc |-> "idle", was |-> FALSE]]
    /\ stop = "idle"
    /\ budget = [ticks |-> 0, polls |-> 0, events |-> 0]
    /\ writes = {}
    /\ serverCreates = 0
    /\ hist = [initPaused |-> FALSE, stopped |-> "no", metrics |-> <<>>]
    /\ sc = NewSystemCollector
    /\ now = 0
    /\ probe = NoProbe

(* --------------------------- Agent.Start ------------------------------- *)
\* PocketBaseClient.GetServerByID: Items[0], or an error when the request
\* fails or no record matches
GetServerByID(store, ok) == IF ok /\ store # <<>> THEN <<store[1]>> ELSE <<>>

\* initializeServerRecord, lines 180-206: no client, or the first GetServerByID
initializeServerRecord_Find ==
    /\ Running /\ main = "init"
    /\ IF ~pbEnabled
       THEN /\ main' = "status"
            /\ UNCHANGED <<serverRecord, isMonitoring, budget, hist>>
       ELSE \E ok \in BOOLEAN :
            LET found == GetServerByID(servers, ok) IN
            /\ CanSpend(Cost(~ok))
            /\ budget' = Spend(Cost(~ok))
            /\ IF found # <<>>
               THEN /\ controlMutex = "free"
                    /\ serverRecord' = found
                    /\ isMonitoring' = IF InitiallyPaused(found[1]) THEN FALSE
                                       ELSE isMonitoring
                    /\ hist' = [hist EXCEPT !.initPaused = (found[1].status = "paused")]
                    /\ main' = "status"
               ELSE /\ main' = "create"
                    /\ UNCHANGED <<serverRecord, isMonitoring, hist>>
    /\ UNCHANGED <<collectorVars, configVars, remoteVars, tickerVars, controlMutex, cancelled, wg,
                   halted, loop, cmd, health, http, ctl, stop, writes, serverCreates>>

\* initializeServerRecord, lines 208-240: SaveServerMetrics of the new record;
\* an error makes Start return it and main exit through log.Fatalf
initializeServerRecord_Create ==
    /\ Running /\ main = "create"
    /\ serverCreates' = serverCreates + 1
    /\ \E ok \in BOOLEAN :
          /\ CanSpend(Cost(~ok))
          /\ budget' = Spend(Cost(~ok))
          /\ servers' = IF ok
                        THEN Append(servers, Stored(NewServerRecord, Len(servers) + 1))
                        ELSE servers
          /\ main' = IF ok THEN "fetch" ELSE "failed"
          /\ halted' = IF ok THEN halted ELSE "fatal"
    /\ UNCHANGED <<collectorVars, configVars, commands, dockers, isMonitoring,
                   serverRecord, tickerVars, controlMutex, cancelled, wg, loop, cmd,
                   health, http, ctl, stop, writes, hist>>

\* initializeServerRecord, lines 242-250: fetch the created record to get its id
initializeServerRecord_Fetch ==
    /\ Running /\ main = "fetch"
    /\ \E ok \in BOOLEAN :
          LET found == GetServerByID(servers, ok) IN
          /\ CanSpend(Cost(~ok))
          /\ budget' = Spend(Cost(~ok))
          /\ serverRecord' = found
          /\ main' = IF found # <<>> THEN "status" ELSE "failed"
          /\ halted' = IF found # <<>> THEN halted ELSE "fatal"
    /\ UNCHANGED <<collectorVars, configVars, remoteVars, isMonitoring, tickerVars, controlMutex,
                   cancelled, wg, loop, cmd, health, http, ctl, stop, writes,
                   serverCreates, hist>>

\* Agent.updateAgentStatus, lines 493-512: whether the status write can end ok
\* (no client: nothing is written and nil is returned)
AgentStatusOutcomes == IF ~pbEnabled \/ servers = <<>> THEN {~pbEnabled} ELSE BOOLEAN

\* the servers collection after updateAgentStatus(status) ended ok or not
AgentStatusWrite(status, ok) ==
    IF pbEnabled /\ ok THEN UpdateAgentStatus(servers, status) ELSE servers

\* the failed status write of Start, as opposed to a missing record, is an
\* environment event
AgentStatusCost(ok) == Cost(pbEnabled /\ servers # <<>> /\ ~ok)

\* Start, lines 104-107: updateAgentStatus("running"), failure only logged
Start_Status ==
    /\ Running /\ main = "status"
    /\ \E ok \in AgentStatusOutcomes :
          /\ CanSpend(AgentStatusCost(ok))
          /\ budget' = Spend(AgentStatusCost(ok))
          /\ servers' = AgentStatusWrite("running", ok)
    /\ main' = "spawn"
    /\ UNCHANGED <<collectorVars, configVars, commands, dockers, isMonitoring,
                   serverRecord, tickerVars, controlMutex, cancelled, wg, halted,
                   loop, cmd, health, http, ctl, stop, writes, serverCreates, hist>>

\* Start, lines 109-121: wg.Add and go for each task
Start_Spawn ==
    /\ Running /\ main = "spawn"
    /\ loop' = [loop EXCEPT !.pc = "start"]
    /\ health' = "serving"
    /\ cmd' = [cmd EXCEPT !.pc = IF remoteControl THEN "wait" ELSE "off"]
    /\ wg' = wg + (IF remoteControl THEN 3 ELSE 2)
    /\ main' = "wait"
    /\ UNCHANGED <<collectorVars, configVars, remoteVars, isMonitoring, serverRecord, tickerVars,
                   controlMutex, cancelled, halted, http, ctl, stop, budget,
                   writes, serverCreates, hist>>

\* Start, lines 123-125: <-a.ctx.Done()
Start_Return ==
    /\ Running /\ main = "wait" /\ cancelled
    /\ main' = "done"
    /\ UNCHANGED <<collectorVars, configVars, remoteVars, isMonitoring, serverRecord, tickerVars,
                   controlMutex, cancelled, wg, halted, loop, cmd, health, http,
                   ctl, stop, budget, writes, serverCreates, hist>>

(* ------------------- Control Loop: Agent.collectMetrics ---------------- *)
NewTicker(d) == [interval |-> d, stopped |-> FALSE]

StopTicker(ts, i) == [ts EXCEPT ![i].stopped = TRUE]

ReplaceTicker_KeepOld(ts, old, d) == Append(ts, NewTicker(d))

\* collectMetrics, lines 324-328: ticker.Stop(), then a new current ticker
ReplaceTicker(ts, old, d) == Append(StopTicker(ts, old), NewTicker(d))

\* collectMetrics, lines 299-303: the ticker lock is taken and the first
\* ticker, with the default interval, is created and stored
collectMetrics_Start ==
    /\ Running /\ loop.pc = "start"
    /\ tickerMutex = "free"
    /\ tickerMutex' = "loop"
    /\ tickers' = Append(tickers, NewTicker(CheckInterval))
    /\ currentTicker' = Len(tickers) + 1
    /\ loop' = [loop EXCEPT !.pc = "unlock_select", !.ticker = Len(tickers) + 1,
                            !.first = Len(tickers) + 1,
                            !.currentInterval = CheckInterval]
    /\ UNCHANGED <<collectorVars, configVars, remoteVars, isMonitoring, serverRecord, controlMutex,
                   cancelled, wg, halted, main, cmd, health, http, ctl, stop,
                   budget, writes, serverCreates, hist>>

\* collectMetrics, lines 304 and 328: tickerMutex.Unlock(), and on to the
\* select or to the rest of the tick
collectMetrics_Unlock ==
    /\ Running /\ loop.pc \in {"unlock_select", "unlock_gate"}
    /\ tickerMutex' = "free"
    /\ loop' = [loop EXCEPT !.pc = IF @ = "unlock_gate" THEN "gate" ELSE "select"]
    /\ UNCHANGED <<collectorVars, configVars, remoteVars, isMonitoring, serverRecord,
                   tickers, currentTicker, controlMutex, cancelled, wg, halted,
                   main, cmd, health, http, ctl, stop, budget, writes,
                   serverCreates, hist>>

\* collectMetrics, lines 310-311 with the deferred calls of lines 297 and 306:
\* defer ticker.Stop() was evaluated when the first ticker was the local one
collectMetrics_Return ==
    /\ Running /\ loop.pc = "select" /\ cancelled
    /\ tickers' = StopTicker(tickers, loop.first)
    /\ wg' = wg - 1
    /\ loop' = [loop EXCEPT !.pc = "done"]
    /\ UNCHANGED <<collectorVars, configVars, remoteVars, isMonitoring, serverRecord, currentTicker,
                   tickerMutex, controlMutex, cancelled, halted, main, cmd, health,
                   http, ctl, stop, budget, writes, serverCreates, hist>>

\* collectMetrics, lines 319-333, for the tick's results: on an interval
\* change the ticker lock is taken and the ticker replaced (the unlock of
\* line 328 is the next step), and the tick ends when told not to monitor
AfterCheck(shouldMonitor, newInterval, refresh) ==
    LET changed == IntervalChanged(newInterval, loop.currentInterval)
        goes    == IF shouldMonitor THEN "gate" ELSE "select"
    IN
    /\ changed => tickerMutex = "free"
    /\ tickerMutex' = IF changed THEN "loop" ELSE tickerMutex
    /\ tickers' = IF changed THEN ReplaceTicker(tickers, loop.ticker, newInterval)
                  ELSE tickers
    /\ currentTicker' = IF changed THEN Len(tickers) + 1 ELSE currentTicker
    /\ loop' = [loop EXCEPT
                  !.pc = IF changed
                         THEN (IF shouldMonitor THEN "unlock_gate" ELSE "unlock_select")
                         ELSE goes,
                  !.ticker = IF changed THEN Len(tickers) + 1 ELSE @,
                  !.currentInterval = IF changed THEN newInterval ELSE @,
                  !.newInterval = newInterval,
                  !.shouldMonitor = shouldMonitor,
                  !.refresh = refresh,
                  !.body = <<>>]

\* history: a tick that begins after a stop was processed
TickBegins(h) == [h EXCEPT !.stopped = IF @ = "yes" THEN "ticked" ELSE @,
                            !.metrics = <<>>]

\* collectMetrics, line 312, and checkServerStatus, lines 253-273: the local
\* ticker fires; early return, or GetServerByID and the new cached record
checkServerStatus_Fetch ==
    /\ Running /\ loop.pc = "select"
    /\ ~tickers[loop.ticker].stopped
    /\ budget.ticks < MaxTicks
    /\ writes' = {}
    /\ IF ~pbEnabled \/ serverRecord = <<>>
       THEN /\ AfterCheck(TRUE, CheckInterval, "skip")
            /\ budget' = [budget EXCEPT !.ticks = @ + 1]
            /\ hist' = TickBegins(hist)
            /\ UNCHANGED serverRecord
       ELSE \E ok \in BOOLEAN :
            LET found == GetServerByID(servers, ok) IN
            /\ CanSpend(Cost(~ok))
            /\ budget' = [Spend(Cost(~ok)) EXCEPT !.ticks = @ + 1]
            /\ IF found # <<>>
               THEN /\ serverRecord' = found
                    /\ loop' = [loop EXCEPT
                                  !.pc = "setflag",
                                  !.newInterval = EffectiveInterval(found[1]),
                                  !.refresh = IF found[1].status = "paused"
                                              THEN "paused" ELSE "active",
                                  !.body = <<>>]
                    /\ hist' = [TickBegins(hist) EXCEPT !.initPaused =
                                  @ /\ found[1].status = "paused"]
                    /\ UNCHANGED tickerVars
               ELSE /\ AfterCheck(TRUE, CheckInterval, "fail")
                    /\ hist' = TickBegins(hist)
                    /\ UNCHANGED serverRecord
    /\ UNCHANGED <<collectorVars, configVars, remoteVars, isMonitoring, controlMutex,
                   cancelled, wg, halted, main, cmd, health, http, ctl, stop,
                   serverCreates>>

\* checkServerStatus, lines 275-293: isMonitoring set under the control lock,
\* then collectMetrics, lines 319-333
checkServerStatus_SetFlag ==
    /\ Running /\ loop.pc = "setflag"
    /\ controlMutex = "free"
    /\ isMonitoring' = ~IsPaused(serverRecord[1])
    /\ AfterCheck(~IsPaused(serverRecord[1]), loop.newInterval, loop.refresh)
    /\ UNCHANGED <<collectorVars, configVars, remoteVars, serverRecord, controlMutex,
                   cancelled, wg, halted, main, cmd, health, http, ctl, stop,
                   budget, writes, serverCreates, hist>>

\* collectMetrics, lines 335-346: isMonitoring read under the read lock, then
\* gatherServerMetrics, which dereferences a.serverRecord
collectMetrics_Gate ==
    /\ Running /\ loop.pc = "gate"
    /\ controlMutex = "free"
    /\ IF ~isMonitoring
       THEN /\ loop' = [loop EXCEPT !.pc = "select"]
            /\ UNCHANGED halted
       ELSE IF serverRecord = <<>>
            THEN /\ halted' = "panic"
                 /\ UNCHANGED loop
            ELSE /\ loop' = [loop EXCEPT
                               !.pc = "update",
                               !.body = <<gatherServerMetrics(serverRecord[1])>>]
                 /\ UNCHANGED halted
    /\ UNCHANGED <<collectorVars, configVars, remoteVars, isMonitoring, serverRecord, tickerVars,
                   controlMutex, cancelled, wg, main, cmd, health, http, ctl, stop,
                   budget, writes, serverCreates, hist>>

\* the remote effect of the request updateServerRecord issued
ServerWrite(store, req, body) ==
    IF req.op = "update"
    THEN UpdateServerStatus(store, req.id, body)
    ELSE Append(store, Stored([status |-> body.status,
                               check_interval |-> body.check_interval,
                               docker |-> body.docker, agent_status |-> "",
                               reported |-> TRUE], Len(store) + 1))

\* a request of the tick with its outcome
Logged(req, ok) == [coll |-> req.coll, op |-> req.op, id |-> req.id, ok |-> ok]

\* collectMetrics, lines 348-380: where the tick goes after its two server
\* writes; their errors are only logged
AfterUpdate_ReturnOnError(ok, okMetrics, docker) ==
    IF ~ok \/ ~okMetrics THEN "done" ELSE IF docker THEN "docker" ELSE "select"

AfterUpdate(ok, okMetrics, docker) == IF docker THEN "docker" ELSE "select"

\* collectMetrics, lines 348-363: updateServerRecord, sendDetailedServerMetrics,
\* each failure only logged, then the branch on serverMetrics.Docker.Value
collectMetrics_Update ==
    /\ Running /\ loop.pc = "update"
    /\ LET req == updateServerRecord(serverRecord[1]) IN
       \E ok \in BOOLEAN, okMetrics \in BOOLEAN :
          /\ CanSpend(Cost(~ok) + Cost(~okMetrics))
          /\ budget' = Spend(Cost(~ok) + Cost(~okMetrics))
          /\ writes' = writes \cup
                {Logged(req, ok),
                 Logged([coll |-> "server_metrics", op |-> "create", id |-> 0],
                        okMetrics)}
          /\ serverCreates' = serverCreates + Cost(req.op = "create")
          /\ servers' = IF ok THEN ServerWrite(servers, req, loop.body[1])
                        ELSE servers
          /\ loop' = [loop EXCEPT
                        !.pc = AfterUpdate(ok, okMetrics, loop.body[1].docker)]
    /\ UNCHANGED <<collectorVars, configVars, commands, dockers, isMonitoring, serverRecord,
                   tickerVars, controlMutex, cancelled, wg, halted, main, cmd,
                   health, http, ctl, stop, hist>>

\* what docker ps reports to one gather call: nothing, or every container in order
DockerListings == {<<>>, [i \in 1..MaxContainers |-> i]}

\* gatherDockerContainers / gatherDockerMetrics: empty unless the cached flag is set
gatherDockerContainers(cached) ==
    IF cached.docker THEN DockerListings ELSE {<<>>}

\* a container write as the tick logs it: the collection, the operation and
\* the docker_id of the container
DockerWrite(op, c) == [coll |-> "dockers", op |-> op, id |-> c]

\* sendDockerRecords, lines 317-337, for records l: the first n are processed
\* (the n-th failed when failed is set); position i takes the create branch
\* when GetDockerByID returned any error, the record missing or the lookup
\* lost. The result is the requests issued and the records created.
sendDockerRecords(store, l, n, failed, lost) ==
    LET creates(i) == store[l[i]] = 0 \/ i \in lost IN
    [requests |-> {Logged(DockerWrite(IF creates(i) THEN "create" ELSE "update",
                                      l[i]),
                          ~(failed /\ i = n)) : i \in 1..n},
     store |-> [c \in DOMAIN store |->
                  store[c] + Cost(\E i \in 1..n :
                                     /\ l[i] = c /\ creates(i)
                                     /\ ~(failed /\ i = n))]]

\* sendDockerMetrics, lines 355-362: the creates issued, up to the first failure
sendDockerMetrics(m, n, failed) ==
    {Logged([coll |-> "docker_metrics", op |-> "create", id |-> 0],
            ~(failed /\ i = n)) : i \in 1..n}

AfterDockerRecords_ReturnOnError(failed) == ~failed

\* collectMetrics, lines 368-376: the error of sendDockerRecords is only
\* logged, gatherDockerMetrics and sendDockerMetrics are called after it
AfterDockerRecords(failed) == TRUE

\* collectMetrics, lines 364-380: gatherDockerContainers, sendDockerRecords,
\* gatherDockerMetrics, sendDockerMetrics; every error is only logged
collectMetrics_Docker ==
    /\ Running /\ loop.pc = "docker"
    /\ \E l \in gatherDockerContainers(serverRecord[1]),
          m \in gatherDockerContainers(serverRecord[1]) :
       \E n \in 0..Len(l), k \in 0..Len(m), failed \in BOOLEAN, failedM \in BOOLEAN :
       \E lost \in SUBSET {i \in 1..n : dockers[l[i]] > 0} :
          /\ IF failed THEN n > 0 ELSE n = Len(l)
          /\ IF failedM THEN k > 0 ELSE k = Len(m)
          /\ AfterDockerRecords(failed) \/ (m = <<>> /\ ~failedM)
          /\ hist' = [hist EXCEPT !.metrics = IF AfterDockerRecords(failed)
                                              THEN <<m>> ELSE <<>>]
          /\ CanSpend(Cardinality(lost) + Cost(failed) + Cost(failedM))
          /\ budget' = Spend(Cardinality(lost) + Cost(failed) + Cost(failedM))
          /\ dockers' = sendDockerRecords(dockers, l, n, failed, lost).store
          /\ writes' = writes \cup
                sendDockerRecords(dockers, l, n, failed, lost).requests \cup
                sendDockerMetrics(m, k, failedM)
    /\ loop' = [loop EXCEPT !.pc = "select"]
    /\ UNCHANGED <<collectorVars, configVars, servers, commands, isMonitoring, serverRecord,
                   tickerVars, controlMutex, cancelled, wg, halted, main, cmd,
                   health, http, ctl, stop, serverCreates>>

(* --------------- Command Channel: Agent.listenForCommands -------------- *)
\* listenForCommands, lines 405-406
listenForCommands_Return ==
    /\ Running /\ cmd.pc = "wait" /\ cancelled
    /\ cmd' = [cmd EXCEPT !.pc = "done"]
    /\ wg' = wg - 1
    /\ UNCHANGED <<collectorVars, configVars, remoteVars, isMonitoring, serverRecord, tickerVars,
                   controlMutex, cancelled, halted, main, loop, health, http, ctl,
                   stop, budget, writes, serverCreates, hist>>

\* how the store answers GetPendingCommands: 200 with the list, 404 for a
\* missing collection, or a failed request
PollOutcomes == {"ok", "notfound", "error"}

\* PocketBaseClient.GetPendingCommands: the error it returns; a 404 is none
PollError_NotFoundToo(outcome) == outcome # "ok"

PollError(outcome) == outcome = "error"

\* listenForCommands, line 407, and checkForCommands, lines 415-421: the command
\* ticker fires and GetPendingCommands is called; its error ends the poll and
\* is logged by listenForCommands
checkForCommands_Poll ==
    /\ Running /\ cmd.pc = "wait"
    /\ budget.polls < MaxPolls
    /\ \E outcome \in (IF pbEnabled THEN PollOutcomes ELSE {"ok"}) :
          LET pending == IF pbEnabled /\ outcome = "ok"
                         THEN GetPendingCommands(commands) ELSE <<>>
              err == pbEnabled /\ PollError(outcome)
          IN
          /\ CanSpend(Cost(outcome # "ok"))
          /\ budget' = [Spend(Cost(outcome # "ok")) EXCEPT !.polls = @ + 1]
          /\ cmd' = [cmd EXCEPT !.pc = IF err \/ pending = <<>> THEN "wait" ELSE "next",
                                !.queue = IF err THEN <<>> ELSE pending,
                                !.poll = outcome,
                                !.err = err]
    /\ UNCHANGED <<collectorVars, configVars, remoteVars, isMonitoring, serverRecord, tickerVars,
                   controlMutex, cancelled, wg, halted, main, loop, health, http,
                   ctl, stop, writes, serverCreates, hist>>

Dispatch_UnknownAsStart(name) ==
    CASE name = "start"         -> "start_lock"
      [] name = "stop"          -> "stop_lock"
      [] name = "restart"       -> "stop_lock"
      [] name = "config_update" -> "config"
      [] OTHER                  -> "start_lock"

Dispatch_ConfigAsStart(name) ==
    CASE name = "start"         -> "start_lock"
      [] name = "stop"          -> "stop_lock"
      [] name = "restart"       -> "stop_lock"
      [] name = "config_update" -> "start_lock"
      [] OTHER                  -> "unknown"

\* executeCommand, lines 451-465: where the switch sends each command name
Dispatch(name) ==
    CASE name = "start"         -> "start_lock"
      [] name = "stop"          -> "stop_lock"
      [] name = "restart"       -> "stop_lock"
      [] name = "config_update" -> "config"
      [] OTHER                  -> "unknown"

\* checkForCommands, lines 433-441: an error of executeCommand skips the mark
AfterDispatch_AlwaysMark(ok) == "mark"

AfterDispatch(ok) == IF ok THEN "mark" ELSE "next"

\* PocketBaseClient.MarkCommandExecuted: PATCH {"executed": true}
MarkCommandExecuted(store, i) == [store EXCEPT ![i].executed = TRUE]

\* checkForCommands, lines 433-442, once executeCommand returned for the head of
\* the queue: MarkCommandExecuted unless it failed (a failed mark is only
\* logged), then on to the next fetched command
Dispatched(ok, spent) ==
    LET i == Head(cmd.queue)
        noted == [commands EXCEPT ![i].result = IF ok THEN "ok" ELSE "error"] IN
    /\ \E marked \in (IF AfterDispatch(ok) = "mark" THEN BOOLEAN ELSE {FALSE}) :
          LET lostMark == AfterDispatch(ok) = "mark" /\ ~marked IN
          /\ CanSpend(spent + Cost(lostMark))
          /\ budget' = Spend(spent + Cost(lostMark))
          /\ commands' = IF marked THEN MarkCommandExecuted(noted, i) ELSE noted
    /\ cmd' = [cmd EXCEPT !.pc = IF Tail(cmd.queue) = <<>> THEN "wait" ELSE "next",
                          !.queue = Tail(@),
                          !.restart = FALSE]

\* checkForCommands, lines 423-436, and executeCommand: the next fetched command
checkForCommands_Next ==
    /\ Running /\ cmd.pc = "next"
    /\ LET i == Head(cmd.queue)
           c == commands[i]
           to == Dispatch(c.name)
       IN IF ~c.paramsOk
          THEN /\ cmd' = [cmd EXCEPT
                            !.pc = IF Tail(cmd.queue) = <<>> THEN "wait" ELSE "next",
                            !.queue = Tail(@)]
               /\ commands' = [commands EXCEPT ![i].result = "error"]
               /\ UNCHANGED <<ctl, budget>>
          ELSE IF to = "unknown"
          THEN /\ Dispatched(FALSE, 0)
               /\ UNCHANGED ctl
          ELSE IF to = "config"
          THEN /\ cmd' = [cmd EXCEPT !.pc = "config"]
               /\ UNCHANGED <<commands, ctl, budget>>
          ELSE /\ cmd' = [cmd EXCEPT !.pc = "run", !.restart = (c.name = "restart")]
               /\ ctl' = [ctl EXCEPT !["cmd"].pc = to]
               /\ UNCHANGED <<commands, budget>>
    /\ UNCHANGED <<collectorVars, configVars, servers, dockers, isMonitoring, serverRecord,
                   tickerVars, controlMutex, cancelled, wg, halted, main, loop,
                   health, http, stop, writes, serverCreates, hist>>

\* updateConfiguration, lines 486-491: only a status write of "running"
updateConfiguration ==
    /\ Running /\ cmd.pc = "config"
    /\ \E ok \in AgentStatusOutcomes :
          /\ servers' = AgentStatusWrite("running", ok)
          /\ Dispatched(ok, 0)
    /\ UNCHANGED <<collectorVars, configVars, dockers, isMonitoring, serverRecord, tickerVars,
                   controlMutex, cancelled, wg, halted, main, loop, health, http,
                   ctl, stop, writes, serverCreates, hist>>

(* ---------------- startMonitoring / stopMonitoring --------------------- *)
\* where a caller continues once startMonitoring / stopMonitoring returned:
\* executeCommand's restart goes on to startMonitoring when the stop succeeded,
\* the control handlers answer 200 or 500
Returned(p, phase, ok, spent) ==
    IF p = "http"
    THEN /\ http' = [http EXCEPT !.pc = "idle", !.resp = IF ok THEN 200 ELSE 500]
         /\ ctl' = [ctl EXCEPT ![p] = [pc |-> "idle", was |-> FALSE]]
         /\ CanSpend(spent)
         /\ budget' = Spend(spent)
         /\ UNCHANGED <<cmd, commands>>
    ELSE IF phase = "stop" /\ cmd.restart /\ ok
         THEN /\ ctl' = [ctl EXCEPT ![p] = [pc |-> "start_lock", was |-> FALSE]]
              /\ cmd' = [cmd EXCEPT !.restart = FALSE]
              /\ CanSpend(spent)
              /\ budget' = Spend(spent)
              /\ UNCHANGED <<http, commands>>
         ELSE /\ ctl' = [ctl EXCEPT ![p] = [pc |-> "idle", was |-> FALSE]]
              /\ Dispatched(ok, spent)
              /\ UNCHANGED http

controlMutex_Unlock_OnSuccess(p, ok) == IF ok THEN "free" ELSE p

\* startMonitoring, line 470, and stopMonitoring, line 479: the deferred
\* controlMutex.Unlock() runs when the function returns, with or without error
controlMutex_Unlock(p, ok) == "free"

\* startMonitoring, lines 469-473: the write lock is taken and the flag set
startMonitoring_Lock(p) ==
    /\ Running /\ ctl[p].pc = "start_lock"
    /\ controlMutex = "free"
    /\ controlMutex' = p
    /\ isMonitoring' = startMonitoring(isMonitoring)
    /\ ctl' = [ctl EXCEPT ![p].pc = "start_status", ![p].was = isMonitoring]
    /\ hist' = [hist EXCEPT !.initPaused = FALSE, !.stopped = "no"]
    /\ UNCHANGED <<collectorVars, configVars, remoteVars, serverRecord, tickerVars, cancelled, wg,
                   halted, main, loop, cmd, health, http, stop, budget, writes,
                   serverCreates>>

\* startMonitoring, line 474 and the deferred unlock: the status write is made
\* while the lock is held, and its error is the result
startMonitoring_Status(p) ==
    /\ Running /\ ctl[p].pc = "start_status"
    /\ \E ok \in AgentStatusOutcomes :
          /\ servers' = AgentStatusWrite("running", ok)
          /\ Returned(p, "start", ok, 0)
          /\ controlMutex' = controlMutex_Unlock(p, ok)
    /\ UNCHANGED <<collectorVars, configVars, dockers, isMonitoring, serverRecord, tickerVars,
                   cancelled, wg, halted, main, loop, health, stop, writes,
                   serverCreates, hist>>

\* stopMonitoring, lines 478-482
stopMonitoring_Lock(p) ==
    /\ Running /\ ctl[p].pc = "stop_lock"
    /\ controlMutex = "free"
    /\ controlMutex' = p
    /\ isMonitoring' = stopMonitoring(isMonitoring)
    /\ ctl' = [ctl EXCEPT ![p].pc = "stop_status", ![p].was = isMonitoring]
    /\ hist' = [hist EXCEPT !.stopped = "yes"]
    /\ UNCHANGED <<collectorVars, configVars, remoteVars, serverRecord, tickerVars, cancelled, wg,
                   halted, main, loop, cmd, health, http, stop, budget, writes,
                   serverCreates>>

\* stopMonitoring, line 483 and the deferred unlock
stopMonitoring_Status(p) ==
    /\ Running /\ ctl[p].pc = "stop_status"
    /\ \E ok \in AgentStatusOutcomes :
          /\ servers' = AgentStatusWrite("paused", ok)
          /\ Returned(p, "stop", ok, 0)
          /\ controlMutex' = controlMutex_Unlock(p, ok)
    /\ UNCHANGED <<collectorVars, configVars, dockers, isMonitoring, serverRecord, tickerVars,
                   cancelled, wg, halted, main, loop, health, stop, writes,
                   serverCreates, hist>>

(* ------------------ Health Surface: control handlers ------------------- *)
Methods == {"POST", "GET"}

Endpoints == {"start", "stop"}

\* controlStartHandler / controlStopHandler: if r.Method != http.MethodPost
MethodAllowed_Any(method) == TRUE

MethodAllowed(method) == method = "POST"

\* controlStartHandler / controlStopHandler, lines 629-657: anything but POST
\* is answered 405, a POST calls startMonitoring / stopMonitoring
controlHandler(method, endpoint) ==
    /\ Running /\ health = "serving" /\ http.pc = "idle"
    /\ CanSpend(1)
    /\ budget' = Spend(1)
    /\ IF ~MethodAllowed(method)
       THEN /\ http' = [pc |-> "idle", resp |-> 405,
                        method |-> method, endpoint |-> endpoint]
            /\ UNCHANGED ctl
       ELSE /\ http' = [pc |-> "run", resp |-> 0,
                        method |-> method, endpoint |-> endpoint]
            /\ ctl' = [ctl EXCEPT !["http"].pc =
                         IF endpoint = "start" THEN "start_lock" ELSE "stop_lock"]
    /\ UNCHANGED <<collectorVars, configVars, remoteVars, isMonitoring, serverRecord, tickerVars,
                   controlMutex, cancelled, wg, halted, main, loop, cmd, health,
                   stop, writes, serverCreates, hist>>

\* startHealthCheckServer, lines 601-608: Shutdown after cancellation
startHealthCheckServer_Return ==
    /\ Running /\ health = "serving" /\ cancelled
    /\ health' = "done"
    /\ wg' = wg - 1
    /\ UNCHANGED <<collectorVars, configVars, remoteVars, isMonitoring, serverRecord, tickerVars,
                   controlMutex, cancelled, halted, main, loop, cmd, http, ctl,
                   stop, budget, writes, serverCreates, hist>>

(* ------------------------------ Agent.Stop ----------------------------- *)
\* Stop, lines 164-173, called by main on SIGINT / SIGTERM (an environment
\* event): the status write, then the ticker lock is taken and the current
\* ticker stopped
Stop_Ticker ==
    /\ Running /\ stop = "idle"
    /\ tickerMutex = "free"
    /\ tickerMutex' = "stop"
    /\ \E ok \in AgentStatusOutcomes :
          /\ CanSpend(1)
          /\ budget' = Spend(1)
          /\ servers' = AgentStatusWrite("stopped", ok)
    /\ tickers' = IF currentTicker # 0 THEN StopTicker(tickers, currentTicker)
                  ELSE tickers
    /\ stop' = "unlock"
    /\ UNCHANGED <<collectorVars, configVars, commands, dockers, isMonitoring, serverRecord,
                   currentTicker, controlMutex, cancelled, wg, halted, main, loop,
                   cmd, health, http, ctl, writes, serverCreates, hist>>

\* Stop, line 174: tickerMutex.Unlock()
Stop_Unlock ==
    /\ Running /\ stop = "unlock"
    /\ tickerMutex' = "free"
    /\ stop' = "cancel"
    /\ UNCHANGED <<collectorVars, configVars, remoteVars, isMonitoring, serverRecord,
                   tickers, currentTicker, controlMutex, cancelled, wg, halted,
                   main, loop, cmd, health, http, ctl, budget, writes,
                   serverCreates, hist>>

\* Stop, line 176: a.cancel()
Stop_Cancel ==
    /\ Running /\ stop = "cancel"
    /\ cancelled' = TRUE
    /\ stop' = "wait"
    /\ UNCHANGED <<collectorVars, configVars, remoteVars, isMonitoring, serverRecord, tickerVars,
                   controlMutex, wg, halted, main, loop, cmd, health, http, ctl,
                   budget, writes, serverCreates, hist>>

\* Stop, line 177: a.wg.Wait() returns once the counter is zero
Stop_Wait ==
    /\ Running /\ stop = "wait"
    /\ wg = 0
    /\ stop' = "done"
    /\ UNCHANGED <<collectorVars, configVars, remoteVars, isMonitoring, serverRecord, tickerVars,
                   controlMutex, cancelled, wg, halted, main, loop, cmd, health,
                   http, ctl, budget, writes, serverCreates, hist>>

\* main, lines 38-41: Stop has returned, main returns and the process exits
main_Exit ==
    /\ Running /\ stop = "done"
    /\ halted' = "exit"
    /\ UNCHANGED <<collectorVars, configVars, remoteVars, isMonitoring, serverRecord, tickerVars,
                   controlMutex, cancelled, wg, main, loop, cmd, health, http, ctl,
                   stop, budget, writes, serverCreates, hist>>

(* ------------------------------ operator ------------------------------- *)
\* an operator, or the control plane, edits the remote ServerRecord
Operator_Write ==
    /\ Running /\ servers # <<>>
    /\ CanSpend(1)
    /\ budget' = Spend(1)
    /\ \/ \E s \in StatusChoices \ {servers[1].status} :
             servers' = [servers EXCEPT ![1].status = s]
       \/ \E c \in IntervalChoices \ {servers[1].check_interval} :
             servers' = [servers EXCEPT ![1].check_interval = c]
       \/ servers' = [servers EXCEPT ![1].docker = ~@]
    /\ UNCHANGED <<collectorVars, configVars, commands, dockers, isMonitoring, serverRecord,
                   tickerVars, controlMutex, cancelled, wg, halted, main, loop, cmd,
                   health, http, ctl, stop, writes, serverCreates, hist>>

\* the CommandRecords an operator queues: each command name with parameters
\* that decode, and one whose parameters are not a JSON object of strings
CommandChoices ==
    {[name |-> n, paramsOk |-> TRUE] : n \in CommandNames} \cup
    {[name |-> "start", paramsOk |-> FALSE]}

\* an operator queues a CommandRecord for this agent
Operator_Command ==
    /\ Running /\ pbEnabled /\ remoteControl
    /\ CanSpend(1)
    /\ budget' = Spend(1)
    /\ \E c \in CommandChoices :
          commands' = Append(commands,
                             [name |-> c.name, paramsOk |-> c.paramsOk,
                              executed |-> FALSE, result |-> "none"])
    /\ UNCHANGED <<collectorVars, configVars, servers, dockers, isMonitoring, serverRecord,
                   tickerVars, controlMutex, cancelled, wg, halted, main, loop, cmd,
                   health, http, ctl, stop, writes, serverCreates, hist>>

(* ------------------------------- Next ---------------------------------- *)
Next ==
    \/ initializeServerRecord_Find
    \/ initializeServerRecord_Create
    \/ initializeServerRecord_Fetch
    \/ Start_Status
    \/ Start_Spawn
    \/ Start_Return
    \/ collectMetrics_Start
    \/ collectMetrics_Unlock
    \/ collectMetrics_Return
    \/ checkServerStatus_Fetch
    \/ checkServerStatus_SetFlag
    \/ collectMetrics_Gate
    \/ collectMetrics_Update
    \/ collectMetrics_Docker
    \/ listenForCommands_Return
    \/ checkForCommands_Poll
    \/ checkForCommands_Next
    \/ updateConfiguration
    \/ \E p \in Callers : startMonitoring_Lock(p)
    \/ \E p \in Callers : startMonitoring_Status(p)
    \/ \E p \in Callers : stopMonitoring_Lock(p)
    \/ \E p \in Callers : stopMonitoring_Status(p)
    \/ \E m \in Methods, e \in Endpoints : controlHandler(m, e)
    \/ startHealthCheckServer_Return
    \/ Stop_Ticker
    \/ Stop_Unlock
    \/ Stop_Cancel
    \/ Stop_Wait
    \/ main_Exit
    \/ Operator_Write
    \/ Operator_Command

Spec == Init /\ [][Next]_vars

(* ------------------- SystemCollector: CPU percentage ------------------- *)
\* the agent is not started while the collector is driven on its own
AgentIdle ==
    /\ pbEnabled = FALSE
    /\ remoteControl = FALSE
    /\ servers = <<>>
    /\ commands = <<>>
    /\ dockers = [c \in ContainerIds |-> 0]
    /\ isMonitoring = TRUE
    /\ serverRecord = <<>>
    /\ tickers = <<>>
    /\ currentTicker = 0
    /\ controlMutex = "free"
    /\ tickerMutex = "free"
    /\ cancelled = FALSE
    /\ wg = 0
    /\ halted = "no"
    /\ main = "init"
    /\ loop = [pc |-> "off", ticker |-> 0, first |-> 0, currentInterval |-> 0,
               newInterval |-> 0, shouldMonitor |-> FALSE, refresh |-> "none",
               body |-> <<>>]
    /\ cmd = [pc |-> "off", queue |-> <<>>, restart |-> FALSE, poll |-> "none",
              err |-> FALSE]
    /\ health = "off"
    /\ http = [pc |-> "idle", resp |-> 0, method |-> "", endpoint |-> ""]
    /\ ctl = [p \in Callers |-> [pc |-> "idle", was |-> FALSE]]
    /\ stop = "idle"
    /\ budget = [ticks |-> 0, polls |-> 0, events |-> 0]
    /\ writes = {}
    /\ serverCreates = 0
    /\ hist = [initPaused |-> FALSE, stopped |-> "no", metrics |-> <<>>]

agentVars == <<pbEnabled, remoteControl, servers, commands, dockers,
               isMonitoring, serverRecord, tickers, currentTicker, controlMutex,
               tickerMutex, cancelled, wg, halted, main, loop, cmd, health, http, ctl, stop,
               budget, writes, serverCreates, hist>>

\* uint64 addition and subtraction
Add(a, b) == (a + b) % Wrap

Sub(a, b) == (a - b + Wrap) % Wrap

\* a float64 percentage is carried in hundredths of a percent, and what is
\* below a hundredth is dropped
Percent(part, whole) == (part * 100 * Scale) \div whole

calculateCPUPercentage_NoUpperBound(prev, curr) ==
    LET totalDiff == Sub(Add(curr.Idle, curr.User), Add(prev.Idle, prev.User))
        idleDiff  == Sub(curr.Idle, prev.Idle)
    IN  IF totalDiff = 0 THEN 0 ELSE Percent(Sub(totalDiff, idleDiff), totalDiff)

\* calculateCPUPercentage, lines 86-116: the differences are unsigned, so
\* totalDiff - idleDiff wraps when the idle delta exceeds the total delta
calculateCPUPercentage(prev, curr) ==
    LET prevIdle    == prev.Idle
        currIdle    == curr.Idle
        prevNonIdle == prev.User
        currNonIdle == curr.User
        prevTotal   == Add(prevIdle, prevNonIdle)
        currTotal   == Add(currIdle, currNonIdle)
        totalDiff   == Sub(currTotal, prevTotal)
        idleDiff    == Sub(currIdle, prevIdle)
        cpuUsage    == Percent(Sub(totalDiff, idleDiff), totalDiff)
    IN  IF totalDiff = 0 THEN 0
        ELSE IF cpuUsage < 0 THEN 0
        ELSE IF cpuUsage > 100 * Scale THEN 100 * Scale
        ELSE cpuUsage

\* two counter snapshots handed to calculateCPUPercentage
CPUProbes ==
    {[fn |-> "calculateCPUPercentage", prev |-> p, curr |-> c,
      done |-> FALSE, out |-> 0] : p \in CPUStats, c \in CPUStats}

calculateCPUPercentage_Call ==
    /\ probe.fn = "calculateCPUPercentage" /\ ~probe.done
    /\ probe' = [probe EXCEPT !.done = TRUE,
                               !.out = calculateCPUPercentage(probe.prev, probe.curr)]
    /\ UNCHANGED <<agentVars, sc, now>>

(* --------------------- SystemCollector: CPU sampler -------------------- *)
\* getCPUStats: what a read of /proc/stat returns, <<>> being its error
CPUReadings ==
    {<<>>} \cup {<<[User |-> u, Idle |-> i]>> : u \in 0..MaxCounter, i \in 0..MaxCounter}

\* CPUStats.Total as getCPUStats fills it
Total(stats) == Add(stats.User, stats.Idle)

\* getSingleCPUUsage, lines 45-84, on collector c at time t, with the result
\* of its read and of the second read a first call makes: the usage it
\* returns, the collector it leaves, the time it slept, and whether the
\* usage is a measurement (no read failed, enough time had elapsed)
getSingleCPUUsage(c, t, read, second) ==
    IF read = <<>>
    THEN [usage |-> 0, sc |-> c, slept |-> 0, measured |-> FALSE]
    ELSE IF ~c.initialized \/ Total(c.lastCPUStats) = 0
    THEN LET c1 == [c EXCEPT !.lastCPUStats = read[1], !.lastCPUTime = t,
                             !.initialized = TRUE]
         IN  IF second = <<>>
             THEN [usage |-> 0, sc |-> c1, slept |-> FirstCallSleep,
                   measured |-> FALSE]
             ELSE [usage |-> calculateCPUPercentage(read[1], second[1]),
                   sc |-> c1, slept |-> FirstCallSleep, measured |-> TRUE]
    ELSE IF t - c.lastCPUTime < MinElapsed
    THEN [usage |-> 0, sc |-> c, slept |-> 0, measured |-> FALSE]
    ELSE [usage |-> calculateCPUPercentage(c.lastCPUStats, read[1]),
          sc |-> [c EXCEPT !.lastCPUStats = read[1], !.lastCPUTime = t],
          slept |-> 0, measured |-> TRUE]

\* getCPUUsage, lines 22-26: which results enter the average
ValidSample(usage) == usage >= 0 /\ usage <= 100 * Scale

\* getCPUUsage on a new collector
CPUUsageProbe ==
    [fn |-> "getCPUUsage", i |-> 0, totalUsage |-> 0, validSamples |-> 0,
     samples |-> <<>>, done |-> FALSE, out |-> 0]

\* getCPUUsage, lines 21-31: one pass of the sampling loop
getCPUUsage_Sample ==
    /\ probe.fn = "getCPUUsage" /\ ~probe.done /\ probe.i < sampleCount
    /\ \E read \in CPUReadings, second \in CPUReadings :
          LET r == getSingleCPUUsage(sc, now, read, second) IN
          /\ sc' = r.sc
          /\ now' = now + r.slept
                       + (IF probe.i < sampleCount - 1 THEN sampleInterval ELSE 0)
          /\ probe' = [probe EXCEPT
                          !.i = @ + 1,
                          !.totalUsage = IF ValidSample(r.usage)
                                         THEN @ + r.usage ELSE @,
                          !.validSamples = IF ValidSample(r.usage)
                                           THEN @ + 1 ELSE @,
                          !.samples = Append(@, [usage |-> r.usage,
                                                 measured |-> r.measured])]
    /\ UNCHANGED agentVars

\* getCPUUsage, lines 33-41: the average, cut to two decimals
getCPUUsage_Return ==
    /\ probe.fn = "getCPUUsage" /\ ~probe.done /\ probe.i = sampleCount
    /\ probe' = [probe EXCEPT
                    !.done = TRUE,
                    !.out = IF probe.validSamples = 0 THEN 0
                            ELSE probe.totalUsage \div probe.validSamples]
    /\ UNCHANGED <<agentVars, sc, now>>

(* ------------------- SystemCollector: network sampler ------------------ *)
\* getNetworkInfo: what a read of /proc/net/dev returns for the selected
\* interface, <<>> being its error
NetworkReadings ==
    {<<>>} \cup {<<[BytesReceived |-> rx, BytesSent |-> tx]>> :
                    rx \in 0..MaxCounter, tx \in 0..MaxCounter}

\* time between two calls, in milliseconds
ElapsedChoices == {Second, 2 * Second}

\* uint64(float64(diff) / timeDiff) with timeDiff in seconds
Rate(diff, elapsed) == (diff * Second) \div elapsed

\* getNetworkStats, lines 70-113, on collector c at time t: the NetworkStats
\* it returns, whose packet fields carry the rates, and the collector it leaves
getNetworkStats(c, t, read) ==
    IF read = <<>>
    THEN [stats |-> [BytesReceived |-> 0, BytesSent |-> 0,
                     PacketsReceived |-> 0, PacketsSent |-> 0],
          sc |-> c]
    ELSE LET currentStats == read[1]
             timeDiff == t - c.lastNetworkTime
             measure  == c.lastNetworkTime # 0 /\ timeDiff > 0
             rxDiff   == Sub(currentStats.BytesReceived,
                             c.lastNetworkStats.BytesReceived)
             txDiff   == Sub(currentStats.BytesSent, c.lastNetworkStats.BytesSent)
             rxSpeed  == IF measure THEN Rate(rxDiff, timeDiff) ELSE 0
             txSpeed  == IF measure THEN Rate(txDiff, timeDiff) ELSE 0
         IN  [stats |-> [BytesReceived |-> currentStats.BytesReceived,
                         BytesSent |-> currentStats.BytesSent,
                         PacketsReceived |-> rxSpeed, PacketsSent |-> txSpeed],
              sc |-> [c EXCEPT !.lastNetworkStats = currentStats,
                               !.lastNetworkTime = t]]

\* GetNetworkStats called repeatedly on the collector a caller holds
NetworkProbe ==
    [fn |-> "getNetworkStats", n |-> 0, before |-> NewSystemCollector,
     read |-> <<>>, out |-> getNetworkStats(NewSystemCollector, 0, <<>>).stats]

\* GetNetworkStats, part_006 lines 74-76: one call, some time after the last
GetNetworkStats_Call ==
    /\ probe.fn = "getNetworkStats" /\ probe.n < MaxCalls
    /\ \E read \in NetworkReadings, elapsed \in ElapsedChoices :
          LET r == getNetworkStats(sc, now + elapsed, read) IN
          /\ now' = now + elapsed
          /\ sc' = r.sc
          /\ probe' = [probe EXCEPT !.n = @ + 1, !.before = sc, !.read = read,
                                    !.out = r.stats]
    /\ UNCHANGED agentVars

\* the Control Loop's metric snapshots, one per monitored tick
SnapshotProbe ==
    [fn |-> "gatherDetailedServerMetrics", n |-> 0, prev |-> <<>>, read |-> <<>>,
     at |-> 0, out |-> getNetworkStats(NewSystemCollector, 0, <<>>).stats]

\* gatherDetailedServerMetrics, server_metrics.go lines 72-121: a collector
\* is created for the snapshot, and the network fields of the record are
\* what its GetNetworkStats returns. prev is the latest earlier snapshot
\* whose network read succeeded, with its time.
gatherDetailedServerMetrics ==
    /\ probe.fn = "gatherDetailedServerMetrics" /\ probe.n < MaxCalls
    /\ \E read \in NetworkReadings, elapsed \in ElapsedChoices :
          LET collector    == NewSystemCollector
              networkStats == getNetworkStats(collector, now + elapsed, read).stats
          IN
          /\ now' = now + elapsed
          /\ probe' = [probe EXCEPT
                          !.n = @ + 1,
                          !.prev = IF probe.read # <<>>
                                   THEN <<[stats |-> probe.read[1], at |-> probe.at]>>
                                   ELSE @,
                          !.read = read,
                          !.at = now + elapsed,
                          !.out = networkStats]
    /\ UNCHANGED <<agentVars, sc>>

(* ----------------- SystemCollector: interface selection ---------------- *)
\* a string is the sequence of its characters
lo    == <<"l", "o">>
eth0  == <<"e", "t", "h", "0">>
eth1  == <<"e", "t", "h", "1">>
ens3  == <<"e", "n", "s", "3">>
wlan0 == <<"w", "l", "a", "n", "0">>

\* interfaces a host may have: name and flags, and whether hasValidIPAddress
\* finds a non-loopback IPv4 address on it
Interfaces ==
    {[Name |-> lo, Loopback |-> TRUE, Up |-> TRUE, ValidIP |-> FALSE]} \cup
    {[Name |-> n, Loopback |-> FALSE, Up |-> f[1], ValidIP |-> f[2]] :
        n \in {eth0, eth1, ens3, wlan0},
        f \in {<<TRUE, TRUE>>, <<TRUE, FALSE>>, <<FALSE, TRUE>>}}

RECURSIVE SeqsUpTo(_, _)
\* the sequences over S of length at most n
SeqsUpTo(S, n) ==
    IF n = 0 THEN {<<>>}
    ELSE LET shorter == SeqsUpTo(S, n - 1)
         IN  shorter \cup {Append(q, x) : q \in shorter, x \in S}

\* strings.HasPrefix
HasPrefix(str, prefix) ==
    Len(prefix) <= Len(str) /\ SubSeq(str, 1, Len(prefix)) = prefix

\* getMainNetworkInterface, line 129: priorities
priorities ==
    << <<"e", "t", "h", "0">>, <<"e", "n", "s">>, <<"e", "n", "p">>,
       <<"e", "n", "o">>, <<"e", "m">>, <<"b", "o", "n", "d">>, <<"b", "r">> >>

\* the prefix list with eth as its first entry
priorities_Eth ==
    << <<"e", "t", "h">>, <<"e", "n", "s">>, <<"e", "n", "p">>,
       <<"e", "n", "o">>, <<"e", "m">>, <<"b", "o", "n", "d">>, <<"b", "r">> >>

\* the first of the interfaces that passed the loop's test, as a list of
\* at most one: the loop returns at its first hit
FirstWhere(hits) ==
    IF hits = <<>> THEN <<>> ELSE <<Head(hits)>>

\* getMainNetworkInterface, lines 131-146 for the prefix list prios: the
\* outer loop is over the prefixes, the inner one over the interfaces
RECURSIVE ByPriority(_, _)
ByPriority(prios, interfaces) ==
    IF prios = <<>> THEN <<>>
    ELSE LET hit == FirstWhere(SelectSeq(interfaces,
                       LAMBDA i : /\ ~i.Loopback /\ i.Up
                                  /\ HasPrefix(i.Name, Head(prios))
                                  /\ i.ValidIP))
         IN  IF hit # <<>> THEN hit ELSE ByPriority(Tail(prios), interfaces)

\* getMainNetworkInterface, lines 116-158, with the result of
\* getDefaultRouteInterface; <<>> is the empty string
getMainNetworkInterface(route, interfaces) ==
    IF route # <<>> THEN route
    ELSE LET preferred == ByPriority(priorities, interfaces)
             lastResort == FirstWhere(SelectSeq(interfaces,
                              LAMBDA i : ~i.Loopback /\ i.Up /\ i.ValidIP))
         IN  IF preferred # <<>> THEN preferred[1].Name
             ELSE IF lastResort # <<>> THEN lastResort[1].Name
             ELSE <<>>

\* getNetworkInfo, lines 216-221 and 239-242, and
\* getNetworkInfoAllInterfaces, lines 284-288: the interfaces of
\* /proc/net/dev whose counters are read
getNetworkInfo(route, interfaces) ==
    LET mainInterface == getMainNetworkInterface(route, interfaces)
        names == {interfaces[k].Name : k \in 1..Len(interfaces)}
    IN  [main |-> mainInterface,
         counted |-> IF mainInterface = <<>> THEN names \ {lo}
                     ELSE names \cap {mainInterface}]

\* the hosts getNetworkInfo is run on: the interface list and the interface
\* of the default route, if any
InterfaceProbes ==
    {[fn |-> "getNetworkInfo", interfaces |-> l, route |-> r, done |-> FALSE,
      out |-> [main |-> <<>>, counted |-> {}]] :
        l \in SeqsUpTo(Interfaces, MaxIfaces), r \in {<<>>, eth0, wlan0}}

getNetworkInfo_Call ==
    /\ probe.fn = "getNetworkInfo" /\ ~probe.done
    /\ \/ probe.route = <<>>
       \/ \E k \in 1..Len(probe.interfaces) : probe.interfaces[k].Name = probe.route
    /\ probe' = [probe EXCEPT !.done = TRUE,
                               !.out = getNetworkInfo(probe.route, probe.interfaces)]
    /\ UNCHANGED <<agentVars, sc, now>>

(* ------------------- SystemCollector: size strings -------------------- *)
Digits == <<"0", "1", "2", "3", "4", "5", "6", "7", "8", "9">>

DigitValue(c) == (CHOOSE k \in 1..Len(Digits) : Digits[k] = c) - 1

IsDigit(c) == \E k \in 1..Len(Digits) : Digits[k] = c

\* the letters, upper and lower case
UpperCase ==
    <<"A", "B", "C", "D", "E", "F", "G", "H", "I", "J", "K", "L", "M", "N",
      "O", "P", "Q", "R", "S", "T", "U", "V", "W", "X", "Y", "Z">>

LowerCase ==
    <<"a", "b", "c", "d", "e", "f", "g", "h", "i", "j", "k", "l", "m", "n",
      "o", "p", "q", "r", "s", "t", "u", "v", "w", "x", "y", "z">>

\* strings.ToLower
ToLower(str) ==
    [j \in 1..Len(str) |->
        IF \E k \in 1..Len(UpperCase) : UpperCase[k] = str[j]
        THEN LowerCase[CHOOSE k \in 1..Len(UpperCase) : UpperCase[k] = str[j]]
        ELSE str[j]]

RECURSIVE TrimLeft(_)
TrimLeft(str) ==
    IF str # <<>> /\ Head(str) = " " THEN TrimLeft(Tail(str)) ELSE str

RECURSIVE TrimRight(_)
TrimRight(str) ==
    IF str # <<>> /\ str[Len(str)] = " "
    THEN TrimRight(SubSeq(str, 1, Len(str) - 1)) ELSE str

\* strings.TrimSpace
TrimSpace(str) == TrimRight(TrimLeft(str))

RECURSIVE LeadingRun(_, _)
\* the length of the longest prefix of str whose characters are in class
LeadingRun(str, class) ==
    IF str # <<>> /\ Head(str) \in class
    THEN 1 + LeadingRun(Tail(str), class) ELSE 0

\* the character classes [0-9], [0-9.], \s and [A-Za-z] of the expression
DigitClass == {Digits[k] : k \in 1..Len(Digits)}

NumberClass == DigitClass \cup {"."}

SpaceClass == {" "}

LetterClass ==
    {UpperCase[k] : k \in 1..Len(UpperCase)} \cup {LowerCase[k] : k \in 1..Len(LowerCase)}

\* regexp ^([0-9.]+)\s*([A-Za-z]*)$ : <<>> when the string does not match,
\* else the number part and the unit part
FindStringSubmatch(str) ==
    LET n     == LeadingRun(str, NumberClass)
        rest  == SubSeq(str, n + 1, Len(str))
        sp    == LeadingRun(rest, SpaceClass)
        unit  == SubSeq(rest, sp + 1, Len(rest))
    IN  IF n >= 1 /\ LeadingRun(unit, LetterClass) = Len(unit)
        THEN <<[numStr |-> SubSeq(str, 1, n), unit |-> unit]>>
        ELSE <<>>

RECURSIVE DigitsValue(_)
\* the number a string of digits denotes
DigitsValue(str) ==
    IF str = <<>> THEN 0
    ELSE 10 * DigitsValue(SubSeq(str, 1, Len(str) - 1)) + DigitValue(str[Len(str)])

RECURSIVE Pow(_, _)
Pow(b, k) == IF k = 0 THEN 1 ELSE b * Pow(b, k - 1)

\* strconv.ParseFloat on a string of digits and dots: <<>> is its error,
\* else the value as a fraction num / den
ParseFloat(numStr) ==
    LET dots   == SelectSeq(numStr, LAMBDA c : c = ".")
        digits == SelectSeq(numStr, IsDigit)
        whole  == LeadingRun(numStr, DigitClass)
    IN  IF Len(dots) > 1 \/ digits = <<>> THEN <<>>
        ELSE <<[num |-> DigitsValue(digits),
                den |-> Pow(10, Len(digits) - whole)]>>

\* the integer part of n * m / d, computed without forming n * m
MulDiv(n, m, d) ==
    (n \div d) * m + (n % d) * (m \div d) + ((n % d) * (m % d)) \div d

\* parseDataSize, lines 356-379: the multiplier of a lower-cased unit
Multiplier(unit) ==
    CASE unit \in {<<"k", "b">>, <<"k">>} -> 1000
      [] unit \in {<<"m", "b">>, <<"m">>} -> 1000 * 1000
      [] unit \in {<<"g", "b">>, <<"g">>} -> 1000 * 1000 * 1000
      [] unit \in {<<"t", "b">>, <<"t">>} -> 1000 * 1000 * 1000 * 1000
      [] unit = <<"k", "i", "b">> -> 1024
      [] unit = <<"m", "i", "b">> -> 1024 * 1024
      [] unit = <<"g", "i", "b">> -> 1024 * 1024 * 1024
      [] unit = <<"t", "i", "b">> -> 1024 * 1024 * 1024 * 1024
      [] unit \in {<<"b">>, <<>>} -> 1
      [] OTHER -> 1

\* parseDataSize, lines 334-383. int64(size * float64(multiplier)) is the
\* product cut to an integer; the rounding of float64 is not modelled.
parseDataSize(sizeStr) ==
    IF sizeStr \in {<<>>, <<"0", "B">>, <<"0">>} THEN 0
    ELSE LET matches == FindStringSubmatch(TrimSpace(sizeStr)) IN
         IF matches = <<>> THEN 0
         ELSE LET unit == ToLower(matches[1].unit)
                  size == ParseFloat(matches[1].numStr)
              IN  IF size = <<>> THEN 0
                  ELSE MulDiv(size[1].num, Multiplier(unit), size[1].den)

\* the characters of the size strings explored. The units reach kilo here,
\* and mega and giga in SizeExamples: the model checker's integers are 32
\* bits wide, so a product must stay below 2^31.
SizeAlphabet == {"0", "1", "5", ".", " ", "k", "K", "i", "B", "x"}

SizeExamples ==
    { <<"1", ".", "5", "G", "i", "B">>, <<"2", "5", "0", "M", "B">>,
      <<"0", "B">>, <<"1", ".", "5", "M", "i", "B">>, <<"2", "G", "B">> }

SizeProbes ==
    {[fn |-> "parseDataSize", sizeStr |-> str, done |-> FALSE, out |-> 0] :
        str \in SeqsUpTo(SizeAlphabet, MaxLen) \cup SizeExamples}

parseDataSize_Call ==
    /\ probe.fn = "parseDataSize" /\ ~probe.done
    /\ probe' = [probe EXCEPT !.done = TRUE, !.out = parseDataSize(probe.sizeStr)]
    /\ UNCHANGED <<agentVars, sc, now>>

(* ----------------- SystemCollector: container statistics --------------- *)
\* the Status column of `docker ps --all`
StatusUp ==
    <<"U", "p", " ", "2", " ", "h", "o", "u", "r", "s">>

StatusUpPaused ==
    <<"U", "p", " ", "2", " ", "h", "o", "u", "r", "s", " ", "(", "P", "a",
      "u", "s", "e", "d", ")">>

StatusExited ==
    <<"E", "x", "i", "t", "e", "d", " ", "(", "0", ")", " ", "2", " ", "h",
      "o", "u", "r", "s", " ", "a", "g", "o">>

StatusCreated ==
    <<"C", "r", "e", "a", "t", "e", "d">>

StatusRestarting ==
    <<"R", "e", "s", "t", "a", "r", "t", "i", "n", "g", " ", "(", "1", ")",
      " ", "5", " ", "s", "e", "c", "o", "n", "d", "s", " ", "a", "g", "o">>

StatusDead ==
    <<"D", "e", "a", "d">>

StatusRemoval ==
    <<"R", "e", "m", "o", "v", "a", "l", " ", "I", "n", " ", "P", "r", "o",
      "g", "r", "e", "s", "s">>

ContainerStatuses ==
    {StatusUp, StatusUpPaused, StatusExited, StatusCreated, StatusRestarting,
     StatusDead, StatusRemoval}

\* strings.Contains
Contains(str, substr) ==
    \E j \in 1..(Len(str) - Len(substr) + 1) :
        SubSeq(str, j, j + Len(substr) - 1) = substr

\* sizes of DockerStats are carried in KiB: ten GiB in bytes is beyond the
\* model checker's 32-bit integers
KiB == 1024

InKiB(bytes) == bytes \div KiB

IsUp_Always(status) == TRUE

\* getContainerStats, line 206: the status of a container whose statistics
\* are queried
IsUp(status) == Contains(ToLower(status), <<"u", "p">>)

\* parseMemoryUsage, lines 288-306, on the parts of the string split at " / "
parseMemoryUsage(parts) ==
    IF Len(parts) # 2
    THEN [used |-> 512 * KiB, total |-> 2 * KiB * KiB]
    ELSE LET used  == InKiB(parseDataSize(TrimSpace(parts[1])))
             total == InKiB(parseDataSize(TrimSpace(parts[2])))
         IN  [used  |-> IF used = 0 THEN 512 * KiB ELSE used,
              total |-> IF total = 0 THEN 2 * KiB * KiB ELSE total]

\* parseBlockIO, lines 322-332
parseBlockIO(parts) ==
    IF Len(parts) # 2 THEN [read |-> 0, write |-> 0]
    ELSE [read  |-> InKiB(parseDataSize(TrimSpace(parts[1]))),
          write |-> InKiB(parseDataSize(TrimSpace(parts[2])))]

\* getContainerDiskTotal, lines 386-415: SizeRootFs of docker inspect in
\* KiB, 0 when the command fails or prints no positive number
getContainerDiskTotal(sizeRootFs) ==
    IF sizeRootFs > 0 THEN sizeRootFs + 2 * KiB * KiB ELSE 10 * KiB * KiB

\* what `docker stats --no-stream` answers for a container: an error, an
\* empty line, or a line with the CPU percentage (in hundredths), the parts
\* of the memory and block I/O columns, and SizeRootFs of the inspect that
\* follows
StatsAnswers ==
    {[kind |-> "error"], [kind |-> "empty"]} \cup
    {[kind |-> "line", cpu |-> c, mem |-> m, block |-> b, sizeRootFs |-> r] :
        c \in {0, 1250},
        m \in {<< <<"1", ".", "5", "M", "i", "B">>, <<"2", "G", "B">> >>,
                << <<"0", "B">> >>},
        b \in {<< <<"0", "B">>, <<"2", "5", "0", "M", "B">> >>},
        r \in {0, KiB}}

\* getContainerStats, lines 196-285: the figures of the DockerStats it
\* returns, and whether a stats query was issued for the container
getContainerStats(containerID, status, answer) ==
    LET stats == [ID |-> containerID, Status |-> status, CPUUsage |-> 0,
                  MemUsage |-> 0, MemTotal |-> 0, DiskUsage |-> 0,
                  DiskTotal |-> 0, queried |-> FALSE]
    IN  IF ~IsUp(status)
        THEN [stats EXCEPT !.MemTotal = KiB * KiB, !.DiskTotal = 10 * KiB * KiB]
        ELSE IF answer.kind = "error"
        THEN [stats EXCEPT !.queried = TRUE,
                           !.MemUsage = 512 * KiB, !.MemTotal = 2 * KiB * KiB,
                           !.DiskUsage = KiB * KiB, !.DiskTotal = 10 * KiB * KiB]
        ELSE IF answer.kind = "empty"
        THEN [stats EXCEPT !.queried = TRUE]
        ELSE [stats EXCEPT
                !.queried = TRUE,
                !.CPUUsage = answer.cpu,
                !.MemUsage = parseMemoryUsage(answer.mem).used,
                !.MemTotal = parseMemoryUsage(answer.mem).total,
                !.DiskUsage = parseBlockIO(answer.block).read
                                 + parseBlockIO(answer.block).write,
                !.DiskTotal = getContainerDiskTotal(answer.sizeRootFs)]

\* getDockerContainers on the lines `docker ps --all` printed
ContainersProbes ==
    {[fn |-> "getDockerContainers", lines |-> l, containers |-> <<>>] :
        l \in SeqsUpTo(ContainerStatuses, MaxContainers)}

\* getDockerContainers, lines 168-191: one pass of the loop over the lines
getDockerContainers_Line ==
    /\ probe.fn = "getDockerContainers"
    /\ Len(probe.containers) < Len(probe.lines)
    /\ \E answer \in StatsAnswers :
          LET k == Len(probe.containers) + 1 IN
          probe' = [probe EXCEPT !.containers =
                       Append(@, getContainerStats(k, probe.lines[k], answer))]
    /\ UNCHANGED <<agentVars, sc, now>>

(* --------------------------- SpecCollector ----------------------------- *)
CollectorProbes ==
    CPUProbes \cup {CPUUsageProbe, NetworkProbe, SnapshotProbe} \cup InterfaceProbes
       \cup SizeProbes \cup ContainersProbes

InitCollector ==
    /\ AgentIdle
    /\ sc = NewSystemCollector
    /\ now = 0
    /\ probe \in CollectorProbes

NextCollector ==
    \/ calculateCPUPercentage_Call
    \/ getCPUUsage_Sample
    \/ getCPUUsage_Return
    \/ GetNetworkStats_Call
    \/ gatherDetailedServerMetrics
    \/ getNetworkInfo_Call
    \/ parseDataSize_Call
    \/ getDockerContainers_Line

SpecCollector == InitCollector /\ [][NextCollector]_vars

(* ---------------- store interface: FlexibleInt (types.go) -------------- *)
\* the range of the Go int
MinInt == -(2 ^ (IntBits - 1))

MaxInt == 2 ^ (IntBits - 1) - 1

\* a JSON value as the decoder hands it to UnmarshalJSON: the kind of its
\* token and, for numbers and strings, its characters
JSONNumber(t) == [kind |-> "number", text |-> t]

JSONString(t) == [kind |-> "string", text |-> t]

JSONLiterals == {[kind |-> k, text |-> <<>>] : k \in {"true", "false", "null"}}

\* the number grammar of JSON without exponent: -? (0 | [1-9][0-9]*) (. [0-9]+)?
IsJSONNumber(t) ==
    LET body == IF t # <<>> /\ t[1] = "-" THEN Tail(t) ELSE t
        k    == LeadingRun(body, DigitClass)
    IN  /\ k >= 1
        /\ k = 1 \/ body[1] # "0"
        /\ \/ k = Len(body)
           \/ /\ body[k + 1] = "." /\ Len(body) > k + 1
              /\ \A j \in (k + 2)..Len(body) : IsDigit(body[j])

\* strconv.ParseInt(s, 10, 0) and strconv.Atoi: an optional sign, then
\* digits only, and the value must fit the int; <<>> is the error
ParseInt(s) ==
    LET signed == s # <<>> /\ s[1] \in {"+", "-"}
        body   == IF signed THEN Tail(s) ELSE s
        n      == IF signed /\ s[1] = "-" THEN -DigitsValue(body)
                  ELSE DigitsValue(body)
    IN  IF /\ body # <<>>
           /\ \A k \in 1..Len(body) : IsDigit(body[k])
           /\ n >= MinInt /\ n <= MaxInt
        THEN <<n>> ELSE <<>>

Atoi(s) == ParseInt(s)

\* json.Unmarshal(data, &intVal): a number token goes through ParseInt, null
\* leaves the zero value without error, every other token is a type error
Unmarshal_int(data) ==
    CASE data.kind = "number" -> ParseInt(data.text)
      [] data.kind = "null"   -> <<0>>
      [] OTHER                -> <<>>

\* json.Unmarshal(data, &strVal)
Unmarshal_string(data) ==
    CASE data.kind = "string" -> <<data.text>>
      [] data.kind = "null"   -> << <<>> >>
      [] OTHER                -> <<>>

UnmarshalJSON_NumbersOnly(data) ==
    [Value |-> IF Unmarshal_int(data) # <<>> THEN Unmarshal_int(data)[1] ELSE 0,
     err   |-> FALSE]

\* FlexibleInt.UnmarshalJSON, lines 50-73: try int, else string and Atoi,
\* else 0; the error returned is always nil
UnmarshalJSON(data) ==
    LET intVal == Unmarshal_int(data)
        strVal == Unmarshal_string(data)
    IN  IF intVal # <<>> THEN [Value |-> intVal[1], err |-> FALSE]
        ELSE IF strVal # <<>> /\ strVal[1] = <<>> THEN [Value |-> 0, err |-> FALSE]
        ELSE IF strVal # <<>> /\ Atoi(strVal[1]) # <<>>
             THEN [Value |-> Atoi(strVal[1])[1], err |-> FALSE]
        ELSE [Value |-> 0, err |-> FALSE]

\* strconv.FormatUint in base 10
RECURSIVE FormatUint(_)
FormatUint(n) ==
    IF n < 10 THEN <<Digits[n + 1]>>
    ELSE Append(FormatUint(n \div 10), Digits[(n % 10) + 1])

\* json.Marshal of an int
Itoa(n) == IF n < 0 THEN <<"-">> \o FormatUint(-n) ELSE FormatUint(n)

\* FlexibleInt.MarshalJSON, lines 75-77
MarshalJSON(fi) == JSONNumber(Itoa(fi.Value))

NumberAlphabet == {"-", "0", "1", "9", "."}

StringAlphabet == {"-", "+", "0", "1", "9", "a", " "}

\* the JSON values a store answer can hold in an integer field
JSONValues ==
    {JSONNumber(t) : t \in {u \in SeqsUpTo(NumberAlphabet, MaxLen) : IsJSONNumber(u)}}
       \cup {JSONString(t) : t \in SeqsUpTo(StringAlphabet, MaxLen)}
       \cup JSONLiterals

\* a FlexibleInt field of a store answer: the value received, the JSON the
\* decoder is about to read, and the values decoded so far
FlexibleIntProbes ==
    {[fn |-> "FlexibleInt", input |-> d, data |-> <<d>>, outs |-> <<>>] :
        d \in JSONValues}

\* json.Unmarshal of a record calls FlexibleInt.UnmarshalJSON on the field
UnmarshalJSON_Call ==
    /\ probe.fn = "FlexibleInt" /\ probe.data # <<>>
    /\ probe' = [probe EXCEPT !.data = <<>>,
                              !.outs = Append(@, UnmarshalJSON(probe.data[1]))]
    /\ UNCHANGED <<agentVars, sc, now>>

\* json.Marshal of a record calls FlexibleInt.MarshalJSON on the value that
\* was decoded
MarshalJSON_Call ==
    /\ probe.fn = "FlexibleInt" /\ probe.data = <<>> /\ Len(probe.outs) = 1
    /\ probe' = [probe EXCEPT !.data = <<MarshalJSON(probe.outs[1])>>]
    /\ UNCHANGED <<agentVars, sc, now>>

InitStore ==
    /\ AgentIdle
    /\ sc = NewSystemCollector
    /\ now = 0
    /\ probe \in FlexibleIntProbes

NextStore ==
    \/ UnmarshalJSON_Call
    \/ MarshalJSON_Call

SpecStore == InitStore /\ [][NextStore]_vars

(* ------------------------------ properties ----------------------------- *)
\* the Control Loop is at a step that writes to the remote store
LoopWrites == loop.pc \in {"update", "docker"}

\* C1: in a tick whose refresh returned status paused the Control Loop issues
\* no write to the remote store, and its ticker keeps running: unless Stop
\* acted, the ticker the loop waits on is not stopped
C1_PausedTickWritesNothing ==
    loop.refresh = "paused" =>
        /\ writes = {}
        /\ ~LoopWrites
        /\ (stop = "idle" => ~tickers[loop.ticker].stopped)

\* a tick that found the record paused is over, and a further tick can fire
C1_Witness ==
    /\ loop.refresh = "paused" /\ loop.pc = "select"
    /\ budget.ticks = 1 /\ ~isMonitoring
    /\ ~tickers[loop.ticker].stopped /\ ~cancelled

\* C2: the agent's server-record update leaves the remote check_interval,
\* status and docker flag as the store held them immediately before it
C2_UpdateKeepsOperatorFields ==
    [][loop.pc = "update" /\ loop'.pc # "update" =>
          \A i \in 1..Len(servers) :
             /\ servers'[i].check_interval = servers[i].check_interval
             /\ servers'[i].status = servers[i].status
             /\ servers'[i].docker = servers[i].docker]_vars

\* C3: once a stop was processed, on every tick that begins later and until a
\* start is processed, isMonitoring is false and no snapshot is sent
C3_StopStaysPaused ==
    hist.stopped = "ticked" => ~isMonitoring /\ ~LoopWrites

\* C4: startMonitoring stores true and stopMonitoring stores false whatever
\* the flag was, changing nothing else of the control state; the status write
\* that follows changes nothing but the remote agent_status
C4_StartStopIdempotent ==
    [][\A p \in Callers :
          /\ ctl[p].pc = "start_lock" /\ ctl'[p].pc = "start_status" =>
                /\ isMonitoring'
                /\ UNCHANGED <<serverRecord, tickers, currentTicker, servers>>
          /\ ctl[p].pc = "stop_lock" /\ ctl'[p].pc = "stop_status" =>
                /\ ~isMonitoring'
                /\ UNCHANGED <<serverRecord, tickers, currentTicker, servers>>
          /\ ctl[p].pc \in {"start_status", "stop_status"} /\ ctl'[p].pc # ctl[p].pc =>
                /\ UNCHANGED <<isMonitoring, serverRecord, tickers, currentTicker>>
                /\ Len(servers') = Len(servers)
                /\ \A i \in 1..Len(servers) :
                      [servers'[i] EXCEPT !.agent_status = ""] =
                      [servers[i] EXCEPT !.agent_status = ""]]_vars

\* a start was processed while the agent was already Active
C4_Witness ==
    \E p \in Callers : ctl[p].pc = "start_status" /\ ctl[p].was /\ isMonitoring

\* C5: a command is marked executed only when its latest dispatch returned
\* success, and every poll that fetches the pending commands takes up each
\* command not marked executed, those whose dispatch failed included
C5_AtLeastOnce ==
    [][/\ \A i \in 1..Len(commands') :
             commands'[i].executed => commands'[i].result = "ok"
       /\ (cmd.pc = "wait" /\ cmd'.pc = "next") =>
             \A i \in 1..Len(commands) :
                ~commands[i].executed =>
                   \E k \in 1..Len(cmd'.queue) : cmd'.queue[k] = i]_vars

\* a command whose dispatch failed in an earlier poll is up for dispatch again
C5_Witness ==
    /\ cmd.pc = "next"
    /\ commands[Head(cmd.queue)].result = "error"
    /\ ~commands[Head(cmd.queue)].executed

\* C6: the remote store never holds two records created for one container id
C6_OneCreatePerContainer ==
    \A c \in ContainerIds : dockers[c] <= 1

\* C7: at most one create is ever issued on the servers collection, none once
\* initialization is over, and every write of the Control Loop to that
\* collection is an update addressed to the id of the cached record
C7_NoCreateAfterInit ==
    [][/\ serverCreates' <= 1
       /\ main \notin {"init", "create"} => serverCreates' = serverCreates
       /\ \A w \in writes' :
             w.coll = "servers" =>
                /\ w.op = "update"
                /\ serverRecord' # <<>>
                /\ w.id = serverRecord'[1].id]_vars

\* the record was created during initialization and a tick then updated it
C7_Witness ==
    /\ serverCreates = 1 /\ serverRecord # <<>>
    /\ \E w \in writes :
          w.coll = "servers" /\ w.op = "update" /\ w.id = serverRecord[1].id

\* C8: with no record in the store at startup, the create of initialization
\* stores status up and the default interval in seconds, only one create is
\* issued, and tasks run only once the record is cached with a non-empty id
C8_InitialCreate ==
    [][/\ (main = "create" /\ servers = <<>> /\ servers' # servers) =>
             /\ Len(servers') = 1
             /\ servers'[1].status = "up"
             /\ servers'[1].check_interval * Second = CheckInterval
             /\ serverCreates' = 1
       /\ (serverCreates' > 0 /\ loop'.pc # "off") =>
             /\ serverCreates' = 1
             /\ serverRecord' # <<>>
             /\ serverRecord'[1].id # 0
             /\ \E i \in 1..Len(servers') : servers'[i].id = serverRecord'[1].id]_vars

\* the tasks run on the record that initialization created
C8_Witness ==
    /\ serverCreates = 1 /\ Len(servers) = 1
    /\ loop.pc = "select" /\ health = "serving"
    /\ serverRecord # <<>> /\ serverRecord[1].id = servers[1].id

\* C9: when the initial fetch found status paused, isMonitoring is false and
\* the Control Loop sends nothing until a tick observes another status or a
\* start is processed
C9_StartsPaused ==
    hist.initPaused => ~isMonitoring /\ ~LoopWrites /\ writes = {}

\* started paused, and a tick went by without a snapshot
C9_Witness ==
    /\ hist.initPaused /\ budget.ticks = 1
    /\ loop.pc = "select" /\ loop.refresh = "paused"

\* the interval a tick's refresh asks for, as the cached record states it
DesiredInterval(rec) ==
    IF rec.check_interval > 0 THEN rec.check_interval * Second ELSE CheckInterval

\* C10: in the step of a tick that decides on the ticker after a refresh, the
\* ticker is stopped and a new current one created with the desired interval
\* when that differs from the scheduled one, and is left alone otherwise
C10_IntervalChange ==
    [][loop.pc = "setflag" /\ loop'.pc # "setflag" =>
          LET new == DesiredInterval(serverRecord[1])
              old == loop.ticker
          IN IF new # tickers[old].interval
             THEN /\ Len(tickers') = Len(tickers) + 1
                  /\ tickers'[old].stopped
                  /\ tickers'[Len(tickers')] = [interval |-> new, stopped |-> FALSE]
                  /\ loop'.ticker = Len(tickers')
                  /\ currentTicker' = Len(tickers')
             ELSE /\ tickers' = tickers
                  /\ loop'.ticker = old
                  /\ currentTicker' = currentTicker]_vars

\* a refresh changed the interval: the first ticker is stopped and the loop
\* waits on a second one with the new interval
C10_Witness ==
    /\ Len(tickers) = 2 /\ loop.ticker = 2 /\ currentTicker = 2
    /\ tickers[1].stopped /\ ~tickers[2].stopped
    /\ tickers[2].interval # tickers[1].interval
    /\ loop.pc = "select"

\* the step of a tick in which the refresh of the ServerRecord failed
FailedRefresh ==
    /\ loop.pc = "select" /\ budget'.ticks = budget.ticks + 1
    /\ loop'.refresh = "fail"

\* C11: when a tick's refresh fails the cached record is left unchanged, the
\* tick's interval is the one the cached record asks for, and the tick goes
\* on to monitor exactly when the cached status is not paused
C11_FailedRefreshUsesCachedRecord ==
    [][FailedRefresh =>
          /\ serverRecord' = serverRecord
          /\ tickers'[loop'.ticker].interval = DesiredInterval(serverRecord[1])
          /\ loop'.shouldMonitor = (serverRecord[1].status # "paused")]_vars

\* C12: after the server writes of a tick the loop goes on to the container
\* branch or back to its select, and after the container writes back to its
\* select, whatever failed; the process keeps running, and no write of a
\* tick is issued a second time in it
C12_WriteFailureContinues ==
    [][/\ (loop.pc = "update" /\ loop'.pc # "update") =>
             /\ loop'.pc = IF loop.body[1].docker THEN "docker" ELSE "select"
             /\ halted' = "no"
             /\ \A w \in writes' \ writes : w.coll \in {"servers", "server_metrics"}
             /\ \A w \in writes : w.coll \notin {"servers", "server_metrics"}
       /\ (loop.pc = "docker" /\ loop'.pc # "docker") =>
             /\ loop'.pc = "select"
             /\ halted' = "no"
             /\ \A w \in writes' \ writes : w.coll \in {"dockers", "docker_metrics"}
             /\ \A w \in writes : w.coll \notin {"dockers", "docker_metrics"}]_vars

\* a write of the tick failed, and the loop is back in its select on a
\* running ticker
C12_Witness ==
    /\ loop.pc = "select" /\ halted = "no" /\ ~cancelled
    /\ \E w \in writes : ~w.ok
    /\ ~tickers[loop.ticker].stopped

\* C13: no tick terminates the process, and whenever the Control Loop builds
\* a snapshot the cached ServerRecord is present
C13_NoTickTerminates ==
    /\ halted # "panic"
    /\ loop.pc = "update" => serverRecord # <<>>

\* a task is running
TaskRunning ==
    \/ loop.pc \notin {"off", "done"}
    \/ cmd.pc \notin {"off", "done"}
    \/ health \notin {"off", "done"}

\* C14: once Stop has returned no task is running, and none is started
C14_StopWaitsForAllTasks ==
    stop = "done" => ~TaskRunning /\ wg = 0

\* C15: isMonitoring and the cached ServerRecord pointer are written only
\* under the control lock in write mode, so never while another caller
\* holds that lock
C15_WritesUnderControlLock ==
    [][(isMonitoring' # isMonitoring \/ serverRecord' # serverRecord) =>
          controlMutex = "free"]_vars

\* C16: a control request with a method other than POST is answered 405 at
\* once and changes neither isMonitoring nor the remote store, and no call of
\* startMonitoring or stopMonitoring is made for it
C16_NonPostRejected ==
    [][(http.pc = "idle" /\ http' # http /\ http'.method # "POST") =>
          /\ http'.pc = "idle" /\ http'.resp = 405
          /\ ctl'["http"].pc = "idle"
          /\ UNCHANGED <<isMonitoring, servers, commands, dockers, ctl>>]_vars

\* a GET to a control endpoint was answered 405
C16_Witness ==
    http.method = "GET" /\ http.resp = 405 /\ http.pc = "idle"

\* C17: a POST to /control/start stores true in isMonitoring and one to
\* /control/stop stores false, and the flag keeps that value when the request
\* is answered, 200 or 500; a status write that succeeded stored running for
\* start and paused for stop
C17_ControlSetsFlagRegardless ==
    [][/\ (ctl["http"].pc \in {"start_lock", "stop_lock"}
           /\ ctl'["http"].pc # ctl["http"].pc) =>
             isMonitoring' = (http.endpoint = "start")
       /\ (http.pc = "run" /\ http'.pc = "idle") =>
             /\ isMonitoring' = (http.endpoint = "start")
             /\ http'.resp \in {200, 500}
             /\ (http'.resp = 200 /\ pbEnabled) =>
                   servers'[1].agent_status =
                      IF http.endpoint = "start" THEN "running" ELSE "paused"
             /\ http'.resp = 500 => servers' = servers]_vars

\* POST /control/stop was answered 500 and the agent is Paused
C17_Witness ==
    /\ http.pc = "idle" /\ http.method = "POST" /\ http.endpoint = "stop"
    /\ http.resp = 500 /\ ~isMonitoring

\* C18: a poll answered 404 reports no error and dispatches nothing: the
\* Command Channel waits for its next poll with an empty list, and
\* isMonitoring and the command records are unchanged
C18_MissingCollectionIsNoWork ==
    [][(cmd.pc = "wait" /\ budget'.polls = budget.polls + 1
        /\ cmd'.poll = "notfound") =>
          /\ ~cmd'.err
          /\ cmd'.pc = "wait" /\ cmd'.queue = <<>>
          /\ ctl'["cmd"].pc = "idle"
          /\ UNCHANGED <<isMonitoring, commands, servers>>]_vars

\* a poll was answered 404 and a further poll can be made
C18_Witness ==
    /\ cmd.poll = "notfound" /\ cmd.pc = "wait" /\ ~cmd.err
    /\ budget.polls < MaxPolls /\ ~cancelled

\* C19: when the dispatch of a restart command returns, isMonitoring is true
C19_RestartEndsActive ==
    [][(cmd.pc = "run" /\ cmd'.pc # "run"
        /\ commands[Head(cmd.queue)].name = "restart") =>
          isMonitoring']_vars

\* C20: the container branch of a tick is taken, and writes to the container
\* collections are issued, only while the cached record's docker flag is set
C20_ContainerGate ==
    /\ loop.pc = "docker" => serverRecord[1].docker
    /\ \A w \in writes :
          w.coll \in {"dockers", "docker_metrics"} => serverRecord[1].docker

\* a tick refreshed a record without the docker flag and wrote its snapshot
\* to the server collections only
C20_Witness ==
    /\ loop.pc = "select" /\ loop.refresh = "active"
    /\ ~serverRecord[1].docker
    /\ \E w \in writes : w.coll = "servers"
    /\ \A w \in writes : w.coll \notin {"dockers", "docker_metrics"}

\* the total of a snapshot as calculateCPUPercentage forms it
SnapshotTotal(st) == Add(st.Idle, st.User)

\* C21: for any two counter snapshots the computed percentage lies in
\* [0,100], and it is 0 when the total delta is 0
C21_CPUPercentageRange ==
    (probe.fn = "calculateCPUPercentage" /\ probe.done) =>
        /\ probe.out >= 0 /\ probe.out <= 100 * Scale
        /\ SnapshotTotal(probe.curr) = SnapshotTotal(probe.prev) => probe.out = 0

\* the later snapshot's total is lower than the earlier one's, the idle
\* counter went up, and a percentage was computed
C21_Witness ==
    /\ probe.fn = "calculateCPUPercentage" /\ probe.done
    /\ SnapshotTotal(probe.curr) < SnapshotTotal(probe.prev)
    /\ probe.curr.Idle > probe.prev.Idle
    /\ probe.out = 100 * Scale

\* the samples of a getCPUUsage call that are measurements
Measured(samples) == SelectSeq(samples, LAMBDA x : x.measured)

RECURSIVE SumUsage(_)
SumUsage(samples) ==
    IF samples = <<>> THEN 0 ELSE Head(samples).usage + SumUsage(Tail(samples))

\* C22: getCPUUsage takes 3 samples and returns the average of those that
\* are measurements: a sample whose counter read failed or that came too soon
\* after the previous one is left out, and the result is 0 for want of
\* samples only when none is a measurement
C22_AverageOfValidSamples ==
    (probe.fn = "getCPUUsage" /\ probe.done) =>
        /\ Len(probe.samples) = sampleCount
        /\ probe.out = IF Measured(probe.samples) = <<>> THEN 0
                       ELSE SumUsage(Measured(probe.samples))
                               \div Len(Measured(probe.samples))

\* C23: a snapshot taken after an earlier one whose network read succeeded
\* reports, for counters that did not go down, the byte deltas against that
\* earlier snapshot divided by the elapsed seconds
C23_RatesAcrossTicks ==
    (/\ probe.fn = "gatherDetailedServerMetrics"
     /\ probe.prev # <<>> /\ probe.read # <<>>
     /\ probe.read[1].BytesReceived >= probe.prev[1].stats.BytesReceived
     /\ probe.read[1].BytesSent >= probe.prev[1].stats.BytesSent) =>
        /\ probe.out.PacketsReceived =
              Rate(probe.read[1].BytesReceived - probe.prev[1].stats.BytesReceived,
                   probe.at - probe.prev[1].at)
        /\ probe.out.PacketsSent =
              Rate(probe.read[1].BytesSent - probe.prev[1].stats.BytesSent,
                   probe.at - probe.prev[1].at)

\* C24: a call that reads a byte counter lower than the one of the previous
\* snapshot reports a zero rate for it and keeps the new reading as baseline
C24_CounterResetIsNewBaseline ==
    (/\ probe.fn = "getNetworkStats" /\ probe.read # <<>>
     /\ probe.before.lastNetworkTime # 0) =>
        /\ probe.read[1].BytesReceived < probe.before.lastNetworkStats.BytesReceived
              => probe.out.PacketsReceived = 0
        /\ probe.read[1].BytesSent < probe.before.lastNetworkStats.BytesSent
              => probe.out.PacketsSent = 0
        /\ sc.lastNetworkStats = probe.read[1]

\* the interface the selection rule names: the one of the default route, else
\* the first usable one by the prefix order eth, ens, enp, eno, em, bond, br,
\* else the first usable one, else none
SelectedInterface(route, interfaces) ==
    IF route # <<>> THEN route
    ELSE LET preferred == ByPriority(priorities_Eth, interfaces)
             lastResort == FirstWhere(SelectSeq(interfaces,
                              LAMBDA i : ~i.Loopback /\ i.Up /\ i.ValidIP))
         IN  IF preferred # <<>> THEN preferred[1].Name
             ELSE IF lastResort # <<>> THEN lastResort[1].Name
             ELSE <<>>

\* C25: the selection returns the interface of the default route, else the
\* first usable interface by the prefix order eth, ens, enp, eno, em, bond,
\* br, else the first usable interface, else none, and then all interfaces
\* but the loopback are counted
C25_InterfaceSelection ==
    (probe.fn = "getNetworkInfo" /\ probe.done) =>
        /\ probe.out.main = SelectedInterface(probe.route, probe.interfaces)
        /\ probe.out.main = <<>> =>
              probe.out.counted =
                 {probe.interfaces[k].Name : k \in 1..Len(probe.interfaces)} \ {lo}

\* the factor of a unit as the size-string rule lists them, 0 for any other
UnitFactor(unit) ==
    CASE unit = <<"k", "B">> -> 1000
      [] unit = <<"M", "B">> -> 1000 * 1000
      [] unit = <<"G", "B">> -> 1000 * 1000 * 1000
      [] unit = <<"T", "B">> -> 1000 * 1000 * 1000 * 1000
      [] unit = <<"K", "i", "B">> -> 1024
      [] unit = <<"M", "i", "B">> -> 1024 * 1024
      [] unit = <<"G", "i", "B">> -> 1024 * 1024 * 1024
      [] unit = <<"T", "i", "B">> -> 1024 * 1024 * 1024 * 1024
      [] unit = <<"B">> -> 1
      [] OTHER -> 0

\* the bytes a size string stands for: the number times the factor of its
\* unit, cut to an integer, and 0 for every other string
SizeInBytes(str) ==
    LET matches == FindStringSubmatch(TrimSpace(str)) IN
    IF matches = <<>> \/ ParseFloat(matches[1].numStr) = <<>> THEN 0
    ELSE IF UnitFactor(matches[1].unit) = 0 THEN 0
    ELSE MulDiv(ParseFloat(matches[1].numStr)[1].num, UnitFactor(matches[1].unit),
                ParseFloat(matches[1].numStr)[1].den)

\* C26: the parser returns the number times 1000^k for kB, MB, GB, TB and
\* times 1024^k for KiB, MiB, GiB, TiB, cut to an integer, and 0 for every
\* string that is not a number followed by one of these units or B
C26_SizeStringParser ==
    (probe.fn = "parseDataSize" /\ probe.done) =>
        probe.out = SizeInBytes(probe.sizeStr)

\* a status of a running container, as the container engine prints it
RunningStatus(status) == HasPrefix(status, <<"U", "p">>)

\* the fixed figures of a container that is not running
Placeholder(stats) ==
    /\ stats.CPUUsage = 0 /\ stats.MemUsage = 0 /\ stats.MemTotal = KiB * KiB
    /\ stats.DiskUsage = 0 /\ stats.DiskTotal = 10 * KiB * KiB

\* C27: for a container whose status is not a running status no stats query
\* is issued and the placeholder figures are returned; a stats query is
\* issued only for running containers
C27_NotRunningSkipped ==
    probe.fn = "getDockerContainers" =>
        \A k \in 1..Len(probe.containers) :
            LET stats == probe.containers[k] IN
            /\ ~RunningStatus(stats.Status) => ~stats.queried /\ Placeholder(stats)
            /\ stats.queried => RunningStatus(stats.Status)

\* a container that exited was listed and got the placeholder figures
\* without a stats query
C27_Witness ==
    /\ probe.fn = "getDockerContainers"
    /\ \E k \in 1..Len(probe.containers) :
          /\ probe.containers[k].Status = StatusExited
          /\ ~probe.containers[k].queried
          /\ Placeholder(probe.containers[k])

\* the listed units are converted as stated for the strings 1.5GiB, 250MB
\* and 0B
SizeExamplesConverted ==
    /\ parseDataSize(<<"1", ".", "5", "G", "i", "B">>) = 1610612736
    /\ parseDataSize(<<"2", "5", "0", "M", "B">>) = 250000000
    /\ parseDataSize(<<"0", "B">>) = 0
    /\ parseDataSize(<<"5", "x">>) = 5

CommandStep(names) ==
    /\ cmd.pc \in {"next", "config"} /\ cmd' # cmd
    /\ commands[Head(cmd.queue)].name \in names

\* C29: a command whose name is none of start, stop, restart, config_update
\* is rejected: its dispatch returns an error, isMonitoring, the tickers and
\* the remote ServerRecord are unchanged, no start or stop is entered, and
\* the agent does not mark the record executed
C29_UnknownCommandRejected ==
    [][(/\ CommandStep(CommandNames \ {"start", "stop", "restart", "config_update"})
        /\ commands[Head(cmd.queue)].paramsOk) =>
          LET i == Head(cmd.queue) IN
          /\ commands'[i].result = "error"
          /\ commands'[i].executed = commands[i].executed
          /\ cmd'.pc \in {"wait", "next"} /\ cmd'.queue = Tail(cmd.queue)
          /\ UNCHANGED <<isMonitoring, tickers, currentTicker, servers, ctl,
                         serverRecord>>]_vars

\* an unknown command was dispatched and stays unexecuted with an error
C29_Witness ==
    /\ cmd.pc = "wait" /\ cmd.poll = "ok"
    /\ \E i \in 1..Len(commands) :
          /\ commands[i].name = "reboot" /\ commands[i].paramsOk
          /\ commands[i].result = "error" /\ ~commands[i].executed

StatusWriteUnderLock(p) ==
    /\ pbEnabled /\ controlMutex = p
    /\ ctl[p].pc \in {"start_status", "stop_status"}

\* C31: no caller holds the control lock while a remote-store request it
\* issued is outstanding, so the Control Loop never waits for the lock of its
\* status check or of its gate behind a status write of start or stop
C31_TickNeverWaitsOnRemoteCall ==
    \A p \in Callers :
       StatusWriteUnderLock(p) => loop.pc \notin {"setflag", "gate"}

\* C32: whatever the initial fetch returned, the remote store never holds two
\* ServerRecords with the agent's id (servers lists the records of this id)
C32_NoDuplicateServerRecord ==
    Len(servers) <= 1

\* the lock a task waits for at its position, "none" when it waits for no lock
WaitsFor(task) ==
    CASE task = "loop" ->
            IF loop.pc \in {"setflag", "gate"} /\ controlMutex # "free" THEN "control"
            ELSE IF loop.pc = "start" /\ tickerMutex # "free" THEN "ticker"
            ELSE "none"
      [] task = "stop" ->
            IF stop = "idle" /\ tickerMutex # "free" THEN "ticker" ELSE "none"
      [] OTHER ->
            IF ctl[task].pc \in {"start_lock", "stop_lock"} /\ controlMutex # "free"
            THEN "control" ELSE "none"

\* the task is inside the critical section of the lock it holds
InsideSection(task) ==
    CASE task = "loop" -> loop.pc \in {"unlock_select", "unlock_gate"}
      [] task = "stop" -> stop = "unlock"
      [] OTHER         -> ctl[task].pc \in {"start_status", "stop_status"}

LiveTickers(ts) == {k \in 1..Len(ts) : ~ts[k].stopped}

\* C34: at most one ticker the Control Loop created is un-stopped; a ticker
\* is created only with the ticker lock taken by the loop, after the loop's
\* previous ticker was stopped, and it becomes the current ticker
C34_AtMostOneLiveTicker ==
    [][/\ Cardinality(LiveTickers(tickers')) <= 1
       /\ Len(tickers') # Len(tickers) =>
             /\ Len(tickers') = Len(tickers) + 1
             /\ tickerMutex = "free" /\ tickerMutex' = "loop"
             /\ loop.ticker # 0 => tickers'[loop.ticker].stopped
             /\ ~tickers'[Len(tickers')].stopped
             /\ currentTicker' = Len(tickers') /\ loop'.ticker = Len(tickers')]_vars

\* the interval changed: the first ticker is stopped and the second one is
\* the current ticker, the loop being still inside the ticker lock
C34_Witness ==
    /\ Running /\ tickerMutex = "loop" /\ loop.pc \in {"unlock_gate", "unlock_select"}
    /\ Len(tickers) = 2 /\ LiveTickers(tickers) = {2} /\ currentTicker = 2
    /\ stop = "idle"

\* C35: when Stop returns from waiting for the Control Loop, no ticker the
\* loop created is left un-stopped, whatever the tick in progress did
C35_NoTickerAfterStop ==
    [][(stop = "wait" /\ stop' = "done" /\ loop.pc = "done") =>
          LiveTickers(tickers') = {}]_vars

\* the requests of the set ws on the collection coll
WritesOn(ws, coll) == {w \in ws : w.coll = coll}

\* C36: the container records of a tick are written in listing order up to
\* the first failed create or update: every container before the failing one
\* was written successfully and keeps its record, none after it is written,
\* and gatherDockerMetrics / sendDockerMetrics are still called, their writes
\* being those of the listing up to its own first failure
C36_ReconciliationStopsAtFirstFailure ==
    [][(loop.pc = "docker" /\ loop'.pc # "docker") =>
          LET recs    == WritesOn(writes', "dockers")
              metrics == WritesOn(writes', "docker_metrics")
          IN  /\ \A w \in recs :
                    ~w.ok => /\ \A v \in recs : v.id <= w.id
                             /\ \A c \in 1..(w.id - 1) :
                                   \E v \in recs : v.id = c /\ v.ok
              /\ \A c \in ContainerIds :
                    /\ dockers'[c] >= dockers[c]
                    /\ dockers'[c] > dockers[c] =>
                          \E v \in recs : v.id = c /\ v.ok /\ v.op = "create"
              /\ hist'.metrics # <<>>
              /\ metrics # {} => hist'.metrics[1] # <<>>
              /\ (hist'.metrics[1] # <<>> /\ \A w \in metrics : w.ok) =>
                    metrics # {}]_vars

\* the write of the first container failed, the second container was not
\* written, and the container metrics of the tick were written
C36_Witness ==
    /\ loop.pc = "select" /\ Running
    /\ \E w \in WritesOn(writes, "dockers") : w.id = 1 /\ ~w.ok
    /\ \A w \in WritesOn(writes, "dockers") : w.id = 1
    /\ \E w \in WritesOn(writes, "docker_metrics") : w.ok
    /\ hist.metrics = << <<1, 2>> >>

\* the step is an agent-status write: of Start, of Stop, of a start / stop /
\* restart by a caller, or of config_update
StatusWriteStep ==
    \/ main = "status" /\ main' # main
    \/ stop = "idle" /\ stop' # stop
    \/ \E p \in Callers : /\ ctl[p].pc \in {"start_status", "stop_status"}
                          /\ ctl'[p].pc # ctl[p].pc
    \/ cmd.pc = "config" /\ cmd' # cmd

\* C37: an agent-status write changes at most the agent_status field of the
\* first ServerRecord of the agent id: status, desired interval, container
\* flag and every other field, and every other record, are left as they
\* were; with no record found nothing is written, and a control request
\* whose status write wrote nothing is answered with the error
C37_StatusWriteFrame ==
    [][StatusWriteStep =>
          /\ Len(servers') = Len(servers)
          /\ \A i \in 1..Len(servers) :
                servers'[i] = [servers[i] EXCEPT
                                 !.agent_status = IF i = 1 THEN servers'[i].agent_status
                                                  ELSE @]
          /\ servers' # servers =>
                servers'[1].agent_status \in {"running", "paused", "stopped"}
          /\ (pbEnabled /\ http.pc = "run" /\ http'.pc = "idle") =>
                IF http'.resp = 200
                THEN /\ servers' # <<>>
                     /\ servers'[1].agent_status =
                           IF http.endpoint = "start" THEN "running" ELSE "paused"
                ELSE http'.resp = 500 /\ servers' = servers
          /\ (pbEnabled /\ servers = <<>>) => servers' = <<>>
          /\ UNCHANGED <<dockers, serverRecord>>]_vars

\* a control request's status write went through on a record whose status
\* is paused and whose interval is not the default, and left both as they were
C37_Witness ==
    /\ pbEnabled /\ http.pc = "idle" /\ http.resp = 200 /\ http.endpoint = "start"
    /\ Len(servers) = 1 /\ servers[1].agent_status = "running"
    /\ servers[1].status = "paused" /\ servers[1].check_interval = 60

\* the string is a decimal integer: an optional sign, then digits only
IsDecimalInteger(t) ==
    /\ SelectSeq(t, IsDigit) # <<>>
    /\ \A k \in 1..Len(t) : IsDigit(t[k]) \/ (k = 1 /\ t[k] \in {"+", "-"})

\* the integer a decimal integer denotes
IntegerOf(t) ==
    IF t[1] = "-" THEN -DigitsValue(SelectSeq(t, IsDigit))
    ELSE DigitsValue(SelectSeq(t, IsDigit))

\* the integer a JSON value holds: a JSON integer, or a JSON string holding
\* a decimal integer; <<>> for every other JSON value
HeldInteger(d) ==
    IF d.kind \in {"number", "string"} /\ IsDecimalInteger(d.text)
    THEN <<IntegerOf(d.text)>> ELSE <<>>

\* the decoded values of the probe are v, without error, the second one
\* being the decoding of the re-encoded first one
DecodesTo(v) ==
    /\ \A k \in 1..Len(probe.outs) : probe.outs[k] = [Value |-> v, err |-> FALSE]
    /\ (probe.data # <<>> /\ probe.outs # <<>>) => probe.data[1] = JSONNumber(Itoa(v))

\* C38 as stated: a JSON integer and a JSON string holding a decimal integer
\* decode to that integer, every other JSON value to 0, without error, and
\* re-encoding and decoding again gives the same integer
C38_FlexibleIntAsStated ==
    probe.fn = "FlexibleInt" =>
       DecodesTo(IF HeldInteger(probe.input) # <<>> THEN HeldInteger(probe.input)[1]
                 ELSE 0)

\* C38: a JSON integer and a JSON string holding a decimal integer decode to
\* that integer when it is in the range of int, and to 0 when it is not;
\* every other JSON value decodes to 0; no decoding returns an error, and
\* re-encoding the decoded value and decoding it again gives the same integer
C38_FlexibleIntDecoding ==
    probe.fn = "FlexibleInt" =>
       DecodesTo(IF /\ HeldInteger(probe.input) # <<>>
                    /\ HeldInteger(probe.input)[1] \in MinInt..MaxInt
                 THEN HeldInteger(probe.input)[1]
                 ELSE 0)

\* the string "-1" was decoded to -1, re-encoded and decoded to -1 again
C38_Witness ==
    /\ probe.fn = "FlexibleInt" /\ probe.input = JSONString(<<"-", "1">>)
    /\ Len(probe.outs) = 2 /\ probe.outs[2].Value = -1

=============================================================================
